---- MODULE Spec2Model ----
(***************************************************************************)
(* GitValidation (src/src/extension.ts, lines 841-1370): the validators,   *)
(* the branch-name sanitizer and the Conventional Commits generator and    *)
(* parser of git-nova.                                                     *)
(*                                                                         *)
(* A JavaScript string is a sequence of characters; a character is a       *)
(* one-character TLA+ string, except for the three control characters that *)
(* TLA+ cannot write, which are named by their escapes (NUL, SOH, DEL).    *)
(* An object literal is a record with exactly the keys the code writes, so *)
(* that "error" \in DOMAIN r says that the key is present.                 *)
(***************************************************************************)
EXTENDS Integers, Sequences, FiniteSets, TLC

VARIABLES
    pc,         \* "call": the call is about to be made; "return": it has returned
    fn,         \* the operation called
    input,      \* its string argument
    options,    \* its options argument ({} when it takes none)
    fields,     \* the arguments of generateConventionalCommit
    result,     \* what the call returned
    origin,     \* where input comes from: "caller", or the operation that returned it
    lastIndex,  \* the lastIndex of the RegExp object the caller passes as options.pattern
    protectionRules, \* BranchProtectionManager.protectionRules
    retryAttempts,   \* ErrorHandlerService.retryAttempts: operationId -> number
    execution        \* the call of executeWithRetry in progress: its arguments, its
                     \* locals, where it stands, and what its promise settled with

vars == <<pc, fn, input, options, fields, result, origin, lastIndex, protectionRules,
          retryAttempts, execution>>

retryVars == <<retryAttempts, execution>>

----------------------------------------------------------------------------
(* Characters and character classes.                                       *)

NUL == "\\0"
SOH == "\\x01"
DEL == "\\x7f"

LowerLetters ==
    <<"a","b","c","d","e","f","g","h","i","j","k","l","m",
      "n","o","p","q","r","s","t","u","v","w","x","y","z">>

UpperLetters ==
    <<"A","B","C","D","E","F","G","H","I","J","K","L","M",
      "N","O","P","Q","R","S","T","U","V","W","X","Y","Z">>

Range(s) == {s[i] : i \in DOMAIN s}

DigitChars == {"0","1","2","3","4","5","6","7","8","9"}

\* \w
WordChars == Range(LowerLetters) \cup Range(UpperLetters) \cup DigitChars \cup {"_"}

\* \s, and what String.prototype.trim removes
WhitespaceChars == {" ", "\t", "\n", "\r"}

\* [\x00-\x1f\x7f]
ControlChars == {NUL, SOH, "\t", "\n", "\r", DEL}

\* [~^:?*\[\]@{\\]
SpecialChars == {"~", "^", ":", "?", "*", "[", "]", "@", "{", "\\"}

\* what . matches: everything but a line terminator
IsDot(c) == c \notin {"\n", "\r"}

----------------------------------------------------------------------------
(* String.prototype methods, on sequences of characters.                   *)

Min(a, b) == IF a < b THEN a ELSE b

Max(a, b) == IF a > b THEN a ELSE b

Indices(s) == [i \in 1..Len(s) |-> i]

toLowerCase(s) ==
    [i \in 1..Len(s) |->
        IF \E k \in 1..26 : UpperLetters[k] = s[i]
        THEN LowerLetters[CHOOSE k \in 1..26 : UpperLetters[k] = s[i]]
        ELSE s[i]]

toUpperCase(s) ==
    [i \in 1..Len(s) |->
        IF \E k \in 1..26 : LowerLetters[k] = s[i]
        THEN UpperLetters[CHOOSE k \in 1..26 : LowerLetters[k] = s[i]]
        ELSE s[i]]

\* s.substring(0, n); a negative n counts as 0
substring0(s, n) == SubSeq(s, 1, Min(Max(n, 0), Len(s)))

startsWith(s, p) == Len(p) <= Len(s) /\ SubSeq(s, 1, Len(p)) = p

endsWith(s, p) == Len(p) <= Len(s) /\ SubSeq(s, Len(s) - Len(p) + 1, Len(s)) = p

\* the first index from i on whose character is not in C (Len(s) + 1 when
\* there is none)
RECURSIVE SkipForward(_, _, _)
SkipForward(s, i, C) ==
    IF i <= Len(s) /\ s[i] \in C THEN SkipForward(s, i + 1, C) ELSE i

\* the last index up to i whose character is not in C (0 when there is none)
RECURSIVE SkipBackward(_, _, _)
SkipBackward(s, i, C) ==
    IF i >= 1 /\ s[i] \in C THEN SkipBackward(s, i - 1, C) ELSE i

\* s.replace(/^[C]+/, '')
StripLeading(s, C) == SubSeq(s, SkipForward(s, 1, C), Len(s))

\* s.replace(/[C]+$/, '')
StripTrailing(s, C) == SubSeq(s, 1, SkipBackward(s, Len(s), C))

trim(s) == StripTrailing(StripLeading(s, WhitespaceChars), WhitespaceChars)

\* s.replace(/[C]+/g, r): every maximal run of characters of C becomes r
ReplaceRuns(s, C, r) ==
    LET first == SelectSeq(Indices(s),
                    LAMBDA i : s[i] \notin C \/ i = 1 \/ s[i-1] \notin C)
    IN  [j \in 1..Len(first) |-> IF s[first[j]] \in C THEN r ELSE s[first[j]]]

\* s.replace(/[C]/g, '')
Remove(s, C) == SelectSeq(s, LAMBDA c : c \notin C)

\* s.replace(/c{2,}/g, c): every run of two or more c becomes one c
CollapseRepeats(s, c) ==
    LET first == SelectSeq(Indices(s),
                    LAMBDA i : s[i] # c \/ i = 1 \/ s[i-1] # c)
    IN  [j \in 1..Len(first) |-> s[first[j]]]

HasChar(s, C) == \E i \in 1..Len(s) : s[i] \in C

\* s contains the substring p
includes(s, p) ==
    \E i \in 0..(Len(s) - Len(p)) : SubSeq(s, i + 1, i + Len(p)) = p

\* s.split('\n')
SplitLines(s) ==
    LET nl   == SelectSeq(Indices(s), LAMBDA i : s[i] = "\n")
        cuts == <<0>> \o nl \o <<Len(s) + 1>>
    IN  [k \in 1..(Len(nl) + 1) |-> SubSeq(s, cuts[k] + 1, cuts[k + 1] - 1)]

\* lines.join('\n')
RECURSIVE JoinLines(_)
JoinLines(lines) ==
    IF Len(lines) = 0 THEN <<>>
    ELSE IF Len(lines) = 1 THEN lines[1]
    ELSE lines[1] \o <<"\n">> \o JoinLines(Tail(lines))

\* list.includes(x)
Contains(list, x) == \E i \in 1..Len(list) : list[i] = x

\* { ...defaults, ...given }
Spread(defaults, given) ==
    [k \in (DOMAIN defaults) \cup (DOMAIN given) |->
        IF k \in DOMAIN given THEN given[k] ELSE defaults[k]]

\* a message: a template literal and the values it interpolates
Text(t) == [fmt |-> t, with |-> <<>>]

Fmt(t, args) == [fmt |-> t, with |-> args]

----------------------------------------------------------------------------
(* Branch names.                                                           *)

DEFAULT_BRANCH_OPTIONS ==
    [allowSlash    |-> TRUE,
     maxLength     |-> 250,
     reservedNames |-> << <<"H","E","A","D">>,
                          <<"F","E","T","C","H","_","H","E","A","D">>,
                          <<"O","R","I","G","_","H","E","A","D">>,
                          <<"M","E","R","G","E","_","H","E","A","D">>,
                          <<"C","H","E","R","R","Y","_","P","I","C","K","_","H","E","A","D">> >>]

\* pattern.test(s) for the patterns a caller passes in this model.  A pattern
\* with the global flag is matched from pattern.lastIndex on, and ^ matches
\* at index 0 only.
RegExpTest(pattern, s) ==
    IF pattern.global /\ pattern.lastIndex > 0 THEN FALSE
    ELSE IF pattern.source = "^[a-z/-]+$"
    THEN Len(s) > 0 /\ \A i \in 1..Len(s) : s[i] \in Range(LowerLetters) \cup {"/", "-"}
    ELSE \* "^[a-z]" : starts with a lower-case letter
         Len(s) > 0 /\ s[1] \in Range(LowerLetters)

\* pattern.lastIndex after pattern.test(s): without the global flag it is left
\* alone; with it, it is the end of the match, and 0 when there is none
LastIndexAfterTest(pattern, s) ==
    IF ~pattern.global THEN pattern.lastIndex
    ELSE IF ~RegExpTest(pattern, s) THEN 0
    ELSE IF pattern.source = "^[a-z/-]+$" THEN Len(s)
    ELSE 1

\* the Git branch name rules without the .lock rule
GitBranchNameRulesWithoutLock(trimmedName) ==
    IF startsWith(trimmedName, <<".">>)
    THEN [valid |-> FALSE, error |-> Text("Branch name cannot start with a dot")]
    ELSE IF endsWith(trimmedName, <<".">>)
    THEN [valid |-> FALSE, error |-> Text("Branch name cannot end with a dot")]
    ELSE IF includes(trimmedName, <<".",".">>)
    THEN [valid |-> FALSE, error |-> Text("Branch name cannot contain consecutive dots")]
    ELSE IF startsWith(trimmedName, <<"-">>)
    THEN [valid |-> FALSE, error |-> Text("Branch name cannot start with a dash")]
    ELSE IF endsWith(trimmedName, <<"/">>)
    THEN [valid |-> FALSE, error |-> Text("Branch name cannot end with a slash")]
    ELSE IF includes(trimmedName, <<"/","/">>)
    THEN [valid |-> FALSE, error |-> Text("Branch name cannot contain consecutive slashes")]
    ELSE IF HasChar(trimmedName, WhitespaceChars)
    THEN [valid |-> FALSE, error |-> Text("Branch name cannot contain spaces")]
    ELSE IF HasChar(trimmedName, ControlChars)
    THEN [valid |-> FALSE, error |-> Text("Branch name cannot contain control characters")]
    ELSE IF HasChar(trimmedName, SpecialChars)
    THEN [valid |-> FALSE,
          error |-> Text("Branch name cannot contain special characters: ~ ^ : ? * [ ] @ { \\")]
    ELSE [valid |-> TRUE]

\* the rules of lines 876-929 ("Git branch name rules" to the special characters)
GitBranchNameRules(trimmedName) ==
    IF startsWith(trimmedName, <<".">>)
    THEN [valid |-> FALSE, error |-> Text("Branch name cannot start with a dot")]
    ELSE IF endsWith(trimmedName, <<".">>)
    THEN [valid |-> FALSE, error |-> Text("Branch name cannot end with a dot")]
    ELSE IF endsWith(trimmedName, <<".","l","o","c","k">>)
    THEN [valid |-> FALSE, error |-> Text("Branch name cannot end with .lock")]
    ELSE IF includes(trimmedName, <<".",".">>)
    THEN [valid |-> FALSE, error |-> Text("Branch name cannot contain consecutive dots")]
    ELSE IF startsWith(trimmedName, <<"-">>)
    THEN [valid |-> FALSE, error |-> Text("Branch name cannot start with a dash")]
    ELSE IF endsWith(trimmedName, <<"/">>)
    THEN [valid |-> FALSE, error |-> Text("Branch name cannot end with a slash")]
    ELSE IF includes(trimmedName, <<"/","/">>)
    THEN [valid |-> FALSE, error |-> Text("Branch name cannot contain consecutive slashes")]
    ELSE IF HasChar(trimmedName, WhitespaceChars)
    THEN [valid |-> FALSE, error |-> Text("Branch name cannot contain spaces")]
    ELSE IF HasChar(trimmedName, ControlChars)
    THEN [valid |-> FALSE, error |-> Text("Branch name cannot contain control characters")]
    ELSE IF HasChar(trimmedName, SpecialChars)
    THEN [valid |-> FALSE,
          error |-> Text("Branch name cannot contain special characters: ~ ^ : ? * [ ] @ { \\")]
    ELSE [valid |-> TRUE]

\* the slash, prefix and pattern checks with the prefix enforced before the
\* slash check
BranchOptionRulesPrefixFirst(trimmedName, opts) ==
    IF /\ "enforcePrefix" \in DOMAIN opts
       /\ Len(opts.enforcePrefix) > 0
       /\ ~\E i \in 1..Len(opts.enforcePrefix) :
               startsWith(trimmedName, opts.enforcePrefix[i] \o <<"/">>)
    THEN [valid       |-> FALSE,
          error       |-> Fmt("Branch name must start with one of: ${opts.enforcePrefix.join(', ')}",
                              <<opts.enforcePrefix>>),
          suggestions |-> [i \in 1..Len(opts.enforcePrefix) |->
                              Fmt("${p}/${trimmedName}", <<opts.enforcePrefix[i], trimmedName>>)]]
    ELSE IF ~opts.allowSlash /\ includes(trimmedName, <<"/">>)
    THEN [valid |-> FALSE, error |-> Text("Branch name cannot contain slashes")]
    ELSE IF "pattern" \in DOMAIN opts /\ ~RegExpTest(opts.pattern, trimmedName)
    THEN [valid |-> FALSE, error |-> Text("Branch name does not match the required pattern")]
    ELSE [valid |-> TRUE]

\* the slash, prefix and pattern checks of lines 931-956
BranchOptionRules(trimmedName, opts) ==
    IF ~opts.allowSlash /\ includes(trimmedName, <<"/">>)
    THEN [valid |-> FALSE, error |-> Text("Branch name cannot contain slashes")]
    ELSE IF /\ "enforcePrefix" \in DOMAIN opts
            /\ Len(opts.enforcePrefix) > 0
            /\ ~\E i \in 1..Len(opts.enforcePrefix) :
                    startsWith(trimmedName, opts.enforcePrefix[i] \o <<"/">>)
    THEN [valid       |-> FALSE,
          error       |-> Fmt("Branch name must start with one of: ${opts.enforcePrefix.join(', ')}",
                              <<opts.enforcePrefix>>),
          suggestions |-> [i \in 1..Len(opts.enforcePrefix) |->
                              Fmt("${p}/${trimmedName}", <<opts.enforcePrefix[i], trimmedName>>)]]
    ELSE IF "pattern" \in DOMAIN opts /\ ~RegExpTest(opts.pattern, trimmedName)
    THEN [valid |-> FALSE, error |-> Text("Branch name does not match the required pattern")]
    ELSE [valid |-> TRUE]

\* lines 958-977: the result for a name that passed every check
BranchBestPractices(trimmedName) ==
    [valid       |-> TRUE,
     warnings    |->
        (IF Len(trimmedName) < 3
         THEN <<Text("Branch name is very short, consider using a more descriptive name")>>
         ELSE <<>>)
        \o (IF HasChar(trimmedName, Range(UpperLetters))
            THEN <<Text("Branch name contains uppercase letters, lowercase is recommended")>>
            ELSE <<>>)
        \o (IF HasChar(trimmedName, {"_"})
            THEN <<Text("Branch name contains underscores, consider using dashes instead")>>
            ELSE <<>>),
     suggestions |->
        IF ~includes(trimmedName, <<"/">>)
        THEN <<Text("Consider using a prefix like feature/, bugfix/, or hotfix/ for better organization")>>
        ELSE <<>>]

validateBranchName(name, opt) ==
    LET opts        == Spread(DEFAULT_BRANCH_OPTIONS, opt)
        trimmedName == trim(name)
    IN  IF Len(trimmedName) = 0
        THEN [valid |-> FALSE, error |-> Text("Branch name cannot be empty")]
        ELSE IF opts.maxLength # 0 /\ Len(trimmedName) > opts.maxLength
        THEN [valid |-> FALSE,
              error |-> Fmt("Branch name exceeds maximum length of ${opts.maxLength} characters",
                            <<opts.maxLength>>)]
        ELSE IF Contains(opts.reservedNames, toUpperCase(trimmedName))
        THEN [valid |-> FALSE,
              error |-> Fmt("'${trimmedName}' is a reserved name and cannot be used as a branch name",
                            <<trimmedName>>)]
        ELSE IF ~GitBranchNameRules(trimmedName).valid
        THEN GitBranchNameRules(trimmedName)
        ELSE IF ~BranchOptionRules(trimmedName, opts).valid
        THEN BranchOptionRules(trimmedName, opts)
        ELSE BranchBestPractices(trimmedName)

\* validateBranchName(name, opt) reaches opts.pattern.test of line 951: a
\* pattern is given and no earlier check has returned
ReachesPatternTest(name, opt) ==
    /\ "pattern" \in DOMAIN opt
    /\ validateBranchName(name, [k \in DOMAIN opt \ {"pattern"} |-> opt[k]]).valid

sanitizeBranchName(name) ==
    LET s1 == trim(name)
        s2 == toLowerCase(s1)
        s3 == ReplaceRuns(s2, WhitespaceChars, "-")
        s4 == ReplaceRuns(s3, {"_"}, "-")
        s5 == Remove(s4, SpecialChars)
        s6 == CollapseRepeats(s5, ".")
        s7 == CollapseRepeats(s6, "/")
        s8 == StripLeading(s7, {"-", ".", "/"})
        s9 == StripTrailing(s8, {"-", ".", "/"})
    IN  substring0(s9, 250)

----------------------------------------------------------------------------
(* Commit messages.                                                        *)

DEFAULT_COMMIT_OPTIONS ==
    [maxSubjectLength  |-> 72,
     maxBodyLineLength |-> 100,
     requireType       |-> FALSE,
     requireScope      |-> FALSE,
     allowedTypes      |-> << <<"f","e","a","t">>, <<"f","i","x">>, <<"d","o","c","s">>,
                              <<"s","t","y","l","e">>, <<"r","e","f","a","c","t","o","r">>,
                              <<"p","e","r","f">>, <<"t","e","s","t">>, <<"b","u","i","l","d">>,
                              <<"c","i">>, <<"c","h","o","r","e">>, <<"r","e","v","e","r","t">> >>]

\* null
Null == [null |-> TRUE]

\* the character at index i (1-based), "" past the end
At(s, i) == IF i \in 1..Len(s) THEN s[i] ELSE ""

\* the index of the last character of the maximal run of characters of C that
\* starts at index from (from - 1 when there is none)
RunEnd(s, from, C) == SkipForward(s, from, C) - 1

\* subject.match(/^(\w+)(?:\(([^)]+)\))?(!)?:\s*(.+)$/): Null, or the groups
\* (a group that did not take part is left out, as it is undefined)
ConventionalMatch(subject) ==
    LET n         == RunEnd(subject, 1, WordChars)
        closes    == {i \in (n + 2)..Len(subject) : subject[i] = ")"}
        close     == CHOOSE i \in closes : \A j \in closes : i <= j
        hasScope  == At(subject, n + 1) = "(" /\ closes # {} /\ close > n + 2
        p         == IF hasScope THEN close + 1 ELSE n + 1
        hasBang   == At(subject, p) = "!"
        q         == IF hasBang THEN p + 1 ELSE p
        rest      == SubSeq(subject, q + 1, Len(subject))
        k         == RunEnd(rest, 1, WhitespaceChars)
        desc      == IF k < Len(rest) THEN SubSeq(rest, k + 1, Len(rest))
                     ELSE IF Len(rest) = 0 THEN <<>>
                     ELSE SubSeq(rest, Len(rest), Len(rest))
        groups    == [type        |-> SubSeq(subject, 1, n),
                      bang        |-> hasBang,
                      description |-> desc]
    IN  IF /\ n >= 1
           /\ At(subject, q) = ":"
           /\ Len(desc) >= 1
           /\ \A i \in 1..Len(desc) : IsDot(desc[i])
        THEN IF hasScope
             THEN groups @@ [scope |-> SubSeq(subject, n + 2, close - 1)]
             ELSE groups
        ELSE Null

\* the warnings with the 0-based index i of a long line for its number i + 1
CommitWarningsZeroBased(lines, subject, opts) ==
    LET long == SelectSeq(Indices(lines),
                    LAMBDA i : /\ i >= 3
                               /\ opts.maxBodyLineLength # 0
                               /\ Len(lines[i]) > opts.maxBodyLineLength)
    IN  (IF Len(lines) > 1 /\ Len(trim(lines[2])) > 0
         THEN <<Text("The second line should be blank to separate subject from body")>>
         ELSE <<>>)
        \o (IF Len(lines) > 1
            THEN [j \in 1..Len(long) |->
                    Fmt("Line ${i + 1} exceeds ${opts.maxBodyLineLength} characters",
                        <<long[j] - 1, opts.maxBodyLineLength>>)]
            ELSE <<>>)
        \o (IF endsWith(subject, <<".">>)
            THEN <<Text("Subject line should not end with a period")>>
            ELSE <<>>)

\* lines 1049-1067: the warnings of a message that was not rejected
CommitWarnings(lines, subject, opts) ==
    LET long == SelectSeq(Indices(lines),
                    LAMBDA i : /\ i >= 3
                               /\ opts.maxBodyLineLength # 0
                               /\ Len(lines[i]) > opts.maxBodyLineLength)
    IN  (IF Len(lines) > 1 /\ Len(trim(lines[2])) > 0
         THEN <<Text("The second line should be blank to separate subject from body")>>
         ELSE <<>>)
        \o (IF Len(lines) > 1
            THEN [j \in 1..Len(long) |->
                    Fmt("Line ${i + 1} exceeds ${opts.maxBodyLineLength} characters",
                        <<long[j], opts.maxBodyLineLength>>)]
            ELSE <<>>)
        \o (IF endsWith(subject, <<".">>)
            THEN <<Text("Subject line should not end with a period")>>
            ELSE <<>>)

\* lines 1069-1075
CommitSuggestions(subject, match) ==
    (IF At(subject, 1) \notin Range(UpperLetters) /\ match = Null
     THEN <<Text("Consider capitalizing the first letter of the subject")>>
     ELSE <<>>)
    \o (IF match = Null /\ Len(subject) > 0
        THEN <<Text("Consider using Conventional Commits format: type(scope): description")>>
        ELSE <<>>)

\* the checks made when requireType is set, with the required scope checked
\* before the type
ConventionalRulesScopeFirst(subject, match, opts) ==
    IF ~opts.requireType THEN [valid |-> TRUE]
    ELSE IF match = Null
    THEN [valid       |-> FALSE,
          error       |-> Text("Commit message must follow Conventional Commits format: type(scope): description"),
          suggestions |-> <<Fmt("Example: feat: ${subject}", <<subject>>),
                            Fmt("Example: fix(core): ${subject}", <<subject>>)>>]
    ELSE IF opts.requireScope /\ "scope" \notin DOMAIN match
    THEN [valid |-> FALSE,
          error |-> Text("Commit message must include a scope: type(scope): description")]
    ELSE IF "allowedTypes" \in DOMAIN opts /\ ~Contains(opts.allowedTypes, match.type)
    THEN [valid |-> FALSE,
          error |-> Fmt("Invalid commit type: '${type}'. Allowed types: ${opts.allowedTypes.join(', ')}",
                        <<match.type, opts.allowedTypes>>)]
    ELSE IF /\ "scope" \in DOMAIN match
            /\ "allowedScopes" \in DOMAIN opts
            /\ ~Contains(opts.allowedScopes, match.scope)
    THEN [valid |-> FALSE,
          error |-> Fmt("Invalid commit scope: '${scope}'. Allowed scopes: ${opts.allowedScopes.join(', ')}",
                        <<match.scope, opts.allowedScopes>>)]
    ELSE [valid |-> TRUE]

\* lines 1016-1047: the checks made when requireType is set
ConventionalRules(subject, match, opts) ==
    IF ~opts.requireType THEN [valid |-> TRUE]
    ELSE IF match = Null
    THEN [valid       |-> FALSE,
          error       |-> Text("Commit message must follow Conventional Commits format: type(scope): description"),
          suggestions |-> <<Fmt("Example: feat: ${subject}", <<subject>>),
                            Fmt("Example: fix(core): ${subject}", <<subject>>)>>]
    ELSE IF "allowedTypes" \in DOMAIN opts /\ ~Contains(opts.allowedTypes, match.type)
    THEN [valid |-> FALSE,
          error |-> Fmt("Invalid commit type: '${type}'. Allowed types: ${opts.allowedTypes.join(', ')}",
                        <<match.type, opts.allowedTypes>>)]
    ELSE IF opts.requireScope /\ "scope" \notin DOMAIN match
    THEN [valid |-> FALSE,
          error |-> Text("Commit message must include a scope: type(scope): description")]
    ELSE IF /\ "scope" \in DOMAIN match
            /\ "allowedScopes" \in DOMAIN opts
            /\ ~Contains(opts.allowedScopes, match.scope)
    THEN [valid |-> FALSE,
          error |-> Fmt("Invalid commit scope: '${scope}'. Allowed scopes: ${opts.allowedScopes.join(', ')}",
                        <<match.scope, opts.allowedScopes>>)]
    ELSE [valid |-> TRUE]

\* the subject-length check with >= for >
SubjectLengthRuleInclusive(subject, opts) ==
    IF opts.maxSubjectLength # 0 /\ Len(subject) >= opts.maxSubjectLength
    THEN [valid       |-> FALSE,
          error       |-> Fmt("Commit subject line exceeds ${opts.maxSubjectLength} characters (${subject.length})",
                              <<opts.maxSubjectLength, Len(subject)>>),
          suggestions |-> <<Fmt("Consider: \"${subject.substring(0, opts.maxSubjectLength - 3)}...\"",
                                <<substring0(subject, opts.maxSubjectLength - 3)>>)>>]
    ELSE [valid |-> TRUE]

\* lines 1004-1010: the subject-length check
SubjectLengthRule(subject, opts) ==
    IF opts.maxSubjectLength # 0 /\ Len(subject) > opts.maxSubjectLength
    THEN [valid       |-> FALSE,
          error       |-> Fmt("Commit subject line exceeds ${opts.maxSubjectLength} characters (${subject.length})",
                              <<opts.maxSubjectLength, Len(subject)>>),
          suggestions |-> <<Fmt("Consider: \"${subject.substring(0, opts.maxSubjectLength - 3)}...\"",
                                <<substring0(subject, opts.maxSubjectLength - 3)>>)>>]
    ELSE [valid |-> TRUE]

validateCommitMessage(message, opt) ==
    LET opts    == Spread(DEFAULT_COMMIT_OPTIONS, opt)
        lines   == SplitLines(message)
        subject == trim(lines[1])
        match   == ConventionalMatch(subject)
    IN  IF Len(trim(message)) = 0
        THEN [valid |-> FALSE, error |-> Text("Commit message cannot be empty")]
        ELSE IF Len(subject) = 0
        THEN [valid |-> FALSE, error |-> Text("Commit subject line cannot be empty")]
        ELSE IF ~SubjectLengthRule(subject, opts).valid
        THEN SubjectLengthRule(subject, opts)
        ELSE IF ~ConventionalRules(subject, match, opts).valid
        THEN ConventionalRules(subject, match, opts)
        ELSE [valid       |-> TRUE,
              warnings    |-> CommitWarnings(lines, subject, opts),
              suggestions |-> CommitSuggestions(subject, match)]

----------------------------------------------------------------------------
(* Tags, remotes, stashes and file paths.                                  *)

\* /^v?\d+\.\d+\.\d+(-[\w.]+)?(\+[\w.]+)?$/.test(s)
SemverTest(s) ==
    LET p0       == IF At(s, 1) = "v" THEN 2 ELSE 1
        e1       == RunEnd(s, p0, DigitChars)
        e2       == RunEnd(s, e1 + 2, DigitChars)
        e3       == RunEnd(s, e2 + 2, DigitChars)
        pre      == RunEnd(s, e3 + 2, WordChars \cup {"."})
        hasPre   == At(s, e3 + 1) = "-" /\ pre >= e3 + 2
        e4       == IF hasPre THEN pre ELSE e3
        build    == RunEnd(s, e4 + 2, WordChars \cup {"."})
        hasBuild == At(s, e4 + 1) = "+" /\ build >= e4 + 2
        e5       == IF hasBuild THEN build ELSE e4
    IN  /\ e1 >= p0
        /\ At(s, e1 + 1) = "."
        /\ e2 >= e1 + 2
        /\ At(s, e2 + 1) = "."
        /\ e3 >= e2 + 2
        /\ e5 = Len(s)

\* validateTagName rejecting a name that is not a semantic version
validateTagNameSemverOnly(name) ==
    LET trimmedName == trim(name)
    IN  IF Len(trimmedName) = 0
        THEN [valid |-> FALSE, error |-> Text("Tag name cannot be empty")]
        ELSE IF HasChar(trimmedName, WhitespaceChars)
        THEN [valid |-> FALSE, error |-> Text("Tag name cannot contain spaces")]
        ELSE IF HasChar(trimmedName, SpecialChars)
        THEN [valid |-> FALSE,
              error |-> Text("Tag name cannot contain special characters: ~ ^ : ? * [ ] @ { \\")]
        ELSE IF startsWith(trimmedName, <<"-">>)
        THEN [valid |-> FALSE, error |-> Text("Tag name cannot start with a dash")]
        ELSE IF ~SemverTest(trimmedName)
        THEN [valid       |-> FALSE,
              error       |-> Text("Tag name must be a semantic version"),
              suggestions |-> <<Text("Consider using semantic versioning format: v1.0.0")>>]
        ELSE [valid |-> TRUE]

validateTagName(name) ==
    LET trimmedName == trim(name)
    IN  IF Len(trimmedName) = 0
        THEN [valid |-> FALSE, error |-> Text("Tag name cannot be empty")]
        ELSE IF HasChar(trimmedName, WhitespaceChars)
        THEN [valid |-> FALSE, error |-> Text("Tag name cannot contain spaces")]
        ELSE IF HasChar(trimmedName, SpecialChars)
        THEN [valid |-> FALSE,
              error |-> Text("Tag name cannot contain special characters: ~ ^ : ? * [ ] @ { \\")]
        ELSE IF startsWith(trimmedName, <<"-">>)
        THEN [valid |-> FALSE, error |-> Text("Tag name cannot start with a dash")]
        ELSE IF ~SemverTest(trimmedName)
        THEN [valid       |-> TRUE,
              suggestions |-> <<Text("Consider using semantic versioning format: v1.0.0")>>]
        ELSE [valid |-> TRUE]

\* validateRemoteName returning its first failure without the error
validateRemoteNameWithoutError(name) ==
    LET trimmedName == trim(name)
    IN  IF Len(trimmedName) = 0
        THEN [valid |-> FALSE]
        ELSE IF HasChar(trimmedName, WhitespaceChars)
        THEN [valid |-> FALSE, error |-> Text("Remote name cannot contain spaces")]
        ELSE IF HasChar(trimmedName, SpecialChars \cup {"/"})
        THEN [valid |-> FALSE, error |-> Text("Remote name cannot contain special characters")]
        ELSE IF ~Contains(<< <<"o","r","i","g","i","n">>,
                             <<"u","p","s","t","r","e","a","m">>,
                             <<"f","o","r","k">> >>, toLowerCase(trimmedName))
        THEN [valid       |-> TRUE,
              suggestions |-> <<Text("Common remote names: origin, upstream, fork")>>]
        ELSE [valid |-> TRUE]

validateRemoteName(name) ==
    LET trimmedName == trim(name)
    IN  IF Len(trimmedName) = 0
        THEN [valid |-> FALSE, error |-> Text("Remote name cannot be empty")]
        ELSE IF HasChar(trimmedName, WhitespaceChars)
        THEN [valid |-> FALSE, error |-> Text("Remote name cannot contain spaces")]
        ELSE IF HasChar(trimmedName, SpecialChars \cup {"/"})
        THEN [valid |-> FALSE, error |-> Text("Remote name cannot contain special characters")]
        ELSE IF ~Contains(<< <<"o","r","i","g","i","n">>,
                             <<"u","p","s","t","r","e","a","m">>,
                             <<"f","o","r","k">> >>, toLowerCase(trimmedName))
        THEN [valid       |-> TRUE,
              suggestions |-> <<Text("Common remote names: origin, upstream, fork")>>]
        ELSE [valid |-> TRUE]

\* u matches prefix [^\s]+ \.git $ (u already lower-cased for the /i flag)
PrefixedGitUrl(u, prefix) ==
    /\ startsWith(u, prefix)
    /\ Len(u) >= Len(prefix) + 1 + 4
    /\ endsWith(u, <<".","g","i","t">>)
    /\ ~HasChar(SubSeq(u, Len(prefix) + 1, Len(u)), WhitespaceChars)

\* /^https?:\/\/[^\s]+\.git$/i
httpsPattern(url) ==
    \/ PrefixedGitUrl(toLowerCase(url), <<"h","t","t","p","s",":","/","/">>)
    \/ PrefixedGitUrl(toLowerCase(url), <<"h","t","t","p",":","/","/">>)

\* /^git@[^\s:]+:[^\s]+\.git$/i
sshPattern1(url) ==
    LET u    == toLowerCase(url)
        host == RunEnd(u, 5, {c \in Range(u) : c \notin WhitespaceChars \cup {":"}})
    IN  /\ startsWith(u, <<"g","i","t","@">>)
        /\ host >= 5
        /\ At(u, host + 1) = ":"
        /\ Len(u) >= host + 1 + 1 + 4
        /\ endsWith(u, <<".","g","i","t">>)
        /\ ~HasChar(SubSeq(u, host + 2, Len(u)), WhitespaceChars)

\* /^ssh:\/\/[^\s]+\.git$/i
sshPattern2(url) == PrefixedGitUrl(toLowerCase(url), <<"s","s","h",":","/","/">>)

\* /^git:\/\/[^\s]+\.git$/i
gitPattern(url) == PrefixedGitUrl(toLowerCase(url), <<"g","i","t",":","/","/">>)

\* /^(file:\/\/)?\/[^\s]+$/
filePattern(url) ==
    LET from == IF startsWith(url, <<"f","i","l","e",":","/","/">>) THEN 8 ELSE 1
    IN  /\ At(url, from) = "/"
        /\ Len(url) >= from + 1
        /\ ~HasChar(SubSeq(url, from + 1, Len(url)), WhitespaceChars)

validateRemoteUrl(url) ==
    LET trimmedUrl == trim(url)
        isValid    == \/ httpsPattern(trimmedUrl)
                      \/ sshPattern1(trimmedUrl)
                      \/ sshPattern2(trimmedUrl)
                      \/ gitPattern(trimmedUrl)
                      \/ filePattern(trimmedUrl)
    IN  IF Len(trimmedUrl) = 0
        THEN [valid |-> FALSE, error |-> Text("Remote URL cannot be empty")]
        ELSE IF ~isValid
        THEN [valid       |-> FALSE,
              error       |-> Text("Invalid remote URL format"),
              suggestions |-> <<Text("HTTPS: https://github.com/user/repo.git"),
                                Text("SSH: git@github.com:user/repo.git")>>]
        ELSE IF gitPattern(trimmedUrl)
        THEN [valid    |-> TRUE,
              warnings |-> <<Text("Git protocol is unencrypted. Consider using HTTPS or SSH.")>>]
        ELSE [valid |-> TRUE]

\* validateStashMessage rejecting a long message with a suggestion
validateStashMessageWithSuggestion(message) ==
    LET trimmedMessage == trim(message)
    IN  IF Len(trimmedMessage) = 0
        THEN [valid       |-> TRUE,
              suggestions |-> <<Text("Consider adding a descriptive message for your stash")>>]
        ELSE IF Len(trimmedMessage) > 500
        THEN [valid       |-> FALSE,
              error       |-> Text("Stash message is too long (max 500 characters)"),
              suggestions |-> <<Text("Consider adding a descriptive message for your stash")>>]
        ELSE [valid |-> TRUE]

validateStashMessage(message) ==
    LET trimmedMessage == trim(message)
    IN  IF Len(trimmedMessage) = 0
        THEN [valid       |-> TRUE,
              suggestions |-> <<Text("Consider adding a descriptive message for your stash")>>]
        ELSE IF Len(trimmedMessage) > 500
        THEN [valid |-> FALSE, error |-> Text("Stash message is too long (max 500 characters)")]
        ELSE [valid |-> TRUE]

\* '..' anywhere in s, as s.includes('..')
ParentReferenceAnywhere(s) == includes(s, <<".", ".">>)

\* /(^|\/)\.\.($|\/)/.test(s)
ParentReference(s) ==
    \E i \in 1..(Len(s) - 1) :
        /\ s[i] = "." /\ s[i + 1] = "."
        /\ (i = 1 \/ s[i - 1] = "/")
        /\ (i + 1 = Len(s) \/ s[i + 2] = "/")

validateFilePath(filePath) ==
    LET trimmedPath == trim(filePath)
    IN  IF Len(trimmedPath) = 0
        THEN [valid |-> FALSE, error |-> Text("File path cannot be empty")]
        ELSE IF HasChar(trimmedPath, {NUL})
        THEN [valid |-> FALSE, error |-> Text("File path cannot contain null bytes")]
        ELSE IF ParentReference(trimmedPath)
        THEN [valid |-> FALSE,
              error |-> Text("File path cannot contain parent directory references (..)")]
        ELSE [valid |-> TRUE]

----------------------------------------------------------------------------
(* Conventional commits: the generator and the parser.                     *)

\* a key of f that is present and truthy (a non-empty string, or true)
Given(f, key) == key \in DOMAIN f /\ f[key] # IF key = "breaking" THEN FALSE ELSE <<>>

generateConventionalCommit(f) ==
    f.type
    \o (IF Given(f, "scope") THEN <<"(">> \o f.scope \o <<")">> ELSE <<>>)
    \o (IF Given(f, "breaking") THEN <<"!">> ELSE <<>>)
    \o <<":", " ">> \o f.description
    \o (IF Given(f, "body") THEN <<"\n", "\n">> \o f.body ELSE <<>>)
    \o (IF Given(f, "footer") THEN <<"\n", "\n">> \o f.footer ELSE <<>>)

\* /^[\w-]+:\s|^[\w-]+\s#/.test(line)
FooterStart(line) ==
    LET e == RunEnd(line, 1, WordChars \cup {"-"})
    IN  /\ e >= 1
        /\ \/ At(line, e + 1) = ":" /\ At(line, e + 2) \in WhitespaceChars
           \/ At(line, e + 1) \in WhitespaceChars /\ At(line, e + 2) = "#"

\* the loop of lines 1337-1350 with inFooter set anew for every line, so that
\* a line after the footer start can go back to the body
RECURSIVE CollectLinesReverting(_, _, _, _, _)
CollectLinesReverting(lines, i, inFooter, bodyLines, footerLines) ==
    IF i > Len(lines) THEN [bodyLines |-> bodyLines, footerLines |-> footerLines]
    ELSE IF FooterStart(lines[i])
    THEN CollectLinesReverting(lines, i + 1, TRUE, bodyLines, Append(footerLines, lines[i]))
    ELSE CollectLinesReverting(lines, i + 1, FALSE, Append(bodyLines, lines[i]), footerLines)

\* the loop of lines 1337-1350, from the line at index i on (1-based)
RECURSIVE CollectLines(_, _, _, _, _)
CollectLines(lines, i, inFooter, bodyLines, footerLines) ==
    IF i > Len(lines) THEN [bodyLines |-> bodyLines, footerLines |-> footerLines]
    ELSE IF inFooter \/ FooterStart(lines[i])
    THEN CollectLines(lines, i + 1, TRUE, bodyLines, Append(footerLines, lines[i]))
    ELSE CollectLines(lines, i + 1, FALSE, Append(bodyLines, lines[i]), footerLines)

\* body and footer joined without the trim
BodyAndFooterUntrimmed(lines) ==
    LET starts      == {i \in 3..Len(lines) : FooterStart(lines[i])}
        first       == IF starts = {} THEN Len(lines) + 1
                       ELSE CHOOSE i \in starts : \A j \in starts : i <= j
        bodyLines   == SubSeq(lines, 3, first - 1)
        footerLines == SubSeq(lines, first, Len(lines))
    IN  (IF Len(lines) > 2 /\ Len(bodyLines) > 0
         THEN [body |-> JoinLines(bodyLines)] ELSE <<>>)
        @@ (IF Len(lines) > 2 /\ Len(footerLines) > 0
            THEN [footer |-> JoinLines(footerLines)] ELSE <<>>)

\* lines 1332-1359: body and footer from line 3 on (keys left out when undefined)
BodyAndFooter(lines) ==
    LET collected   == CollectLines(lines, 3, FALSE, <<>>, <<>>)
        bodyLines   == collected.bodyLines
        footerLines == collected.footerLines
    IN  (IF Len(lines) > 2 /\ Len(bodyLines) > 0
         THEN [body |-> trim(JoinLines(bodyLines))] ELSE <<>>)
        @@ (IF Len(lines) > 2 /\ Len(footerLines) > 0
            THEN [footer |-> trim(JoinLines(footerLines))] ELSE <<>>)

\* parseConventionalCommit returning null for a type that is not one of the
\* default allowed types
parseConventionalCommitAllowedTypes(message) ==
    LET lines == SplitLines(message)
        match == ConventionalMatch(lines[1])
    IN  IF match = Null THEN Null
        ELSE IF ~Contains(DEFAULT_COMMIT_OPTIONS.allowedTypes, match.type) THEN Null
        ELSE [type        |-> match.type,
              breaking    |-> match.bang,
              description |-> match.description]
             @@ (IF "scope" \in DOMAIN match THEN [scope |-> match.scope] ELSE <<>>)
             @@ BodyAndFooter(lines)

\* parseConventionalCommit with breaking also set by a BREAKING CHANGE footer
parseConventionalCommitBreakingFooter(message) ==
    LET lines == SplitLines(message)
        match == ConventionalMatch(lines[1])
    IN  IF match = Null THEN Null
        ELSE [type        |-> match.type,
              breaking    |-> match.bang \/ includes(message, <<"B","R","E","A","K","I","N","G"," ","C","H","A","N","G","E",":">>),
              description |-> match.description]
             @@ (IF "scope" \in DOMAIN match THEN [scope |-> match.scope] ELSE <<>>)
             @@ BodyAndFooter(lines)

\* parseConventionalCommit destructuring the match without the null check of
\* lines 1322-1324: a TypeError when the first line does not match
parseConventionalCommitUnguarded(message) ==
    LET lines == SplitLines(message)
        match == ConventionalMatch(lines[1])
    IN  IF match = Null THEN [threw |-> "TypeError"]
        ELSE [type        |-> match.type,
              breaking    |-> match.bang,
              description |-> match.description]
             @@ (IF "scope" \in DOMAIN match THEN [scope |-> match.scope] ELSE <<>>)
             @@ BodyAndFooter(lines)

parseConventionalCommit(message) ==
    LET lines == SplitLines(message)
        match == ConventionalMatch(lines[1])
    IN  IF match = Null THEN Null
        ELSE [type        |-> match.type,
              breaking    |-> match.bang,
              description |-> match.description]
             @@ (IF "scope" \in DOMAIN match THEN [scope |-> match.scope] ELSE <<>>)
             @@ BodyAndFooter(lines)

----------------------------------------------------------------------------
(* BranchProtectionManager (src/src/services/branchProtectionManager.ts).  *)

Undefined == [undefined |-> TRUE]

DEFAULT_PROTECTED_BRANCHES ==
    << [pattern |-> <<"m","a","i","n">>, isRegex |-> FALSE,
        preventDelete |-> TRUE, preventForcePush |-> TRUE, requirePullRequest |-> TRUE,
        requireLinearHistory |-> FALSE, requireSignedCommits |-> FALSE],
       [pattern |-> <<"m","a","s","t","e","r">>, isRegex |-> FALSE,
        preventDelete |-> TRUE, preventForcePush |-> TRUE, requirePullRequest |-> TRUE,
        requireLinearHistory |-> FALSE, requireSignedCommits |-> FALSE],
       [pattern |-> <<"d","e","v","e","l","o","p">>, isRegex |-> FALSE,
        preventDelete |-> TRUE, preventForcePush |-> TRUE, requirePullRequest |-> FALSE,
        requireLinearHistory |-> FALSE, requireSignedCommits |-> FALSE],
       [pattern |-> <<"^","r","e","l","e","a","s","e","/",".","*","$">>, isRegex |-> TRUE,
        preventDelete |-> FALSE, preventForcePush |-> TRUE, requirePullRequest |-> TRUE,
        requireLinearHistory |-> FALSE, requireSignedCommits |-> FALSE],
       [pattern |-> <<"^","h","o","t","f","i","x","/",".","*","$">>, isRegex |-> TRUE,
        preventDelete |-> FALSE, preventForcePush |-> TRUE, requirePullRequest |-> TRUE,
        requireLinearHistory |-> FALSE, requireSignedCommits |-> FALSE] >>

\* loadConfiguration, lines 157-162: the configured rules, or the defaults
\* when none is configured
loadConfiguration(customRules) ==
    IF customRules # Undefined /\ Len(customRules) > 0
    THEN customRules
    ELSE DEFAULT_PROTECTED_BRANCHES

\* new RegExp(pattern) does not throw, for the patterns of this model
RegExpCompiles(pattern) == pattern # <<"(">>

\* new RegExp(pattern).test(branchName), for the patterns of this model
\* (without the m flag $ matches at the end only, and . no line terminator)
NewRegExpTest(pattern, branchName) ==
    CASE pattern = <<"^","r","e","l","e","a","s","e","/",".","*","$">> ->
            /\ startsWith(branchName, <<"r","e","l","e","a","s","e","/">>)
            /\ \A i \in 9..Len(branchName) : IsDot(branchName[i])
      [] pattern = <<"^","h","o","t","f","i","x","/",".","*","$">> ->
            /\ startsWith(branchName, <<"h","o","t","f","i","x","/">>)
            /\ \A i \in 8..Len(branchName) : IsDot(branchName[i])
      [] pattern = <<"m","a","i","n">> -> includes(branchName, <<"m","a","i","n">>)
      [] pattern = <<".","*">> -> TRUE

matchesRule(branchName, rule) ==
    IF rule.isRegex
    THEN IF RegExpCompiles(rule.pattern)
         THEN NewRegExpTest(rule.pattern, branchName)
         ELSE FALSE
    ELSE branchName = rule.pattern

\* getProtectionRule returning the last rule that matches
getProtectionRuleLastMatch(branchName, rules) ==
    LET matching == {k \in 1..Len(rules) : matchesRule(branchName, rules[k])}
    IN  IF matching = {} THEN Undefined
        ELSE rules[CHOOSE k \in matching : \A j \in matching : j <= k]

\* this.protectionRules.find(rule => this.matchesRule(branchName, rule))
getProtectionRule(branchName, rules) ==
    LET matching == {k \in 1..Len(rules) : matchesRule(branchName, rules[k])}
    IN  IF matching = {} THEN Undefined
        ELSE rules[CHOOSE k \in matching : \A j \in matching : k <= j]

isProtected(branchName, rules) == getProtectionRule(branchName, rules) # Undefined

----------------------------------------------------------------------------
(* ErrorHandlerService.executeWithRetry (branchProtectionManager.ts).      *)

MaxRetries == 3

MAX_RETRY_ATTEMPTS == 3

\* new Map()
EmptyMap == [id \in {} |-> 0]

\* no call of executeWithRetry is in progress
NoExecution == [at |-> "none"]

\* what the operation called for the k-th time resolves with
ValueOf(k) == [value |-> k]

\* what it rejects with: an Error, or a value that is no Error (a string)
ErrorOf(k) == [instanceofError |-> TRUE, message |-> k]

StringOf(k) == [instanceofError |-> FALSE, string |-> k]

\* what an onRetry callback that throws, throws
OnRetryError == [instanceofError |-> TRUE, message |-> "onRetry"]

\* error instanceof Error ? error : new Error(String(error))
AsError(error) ==
    IF error.instanceofError THEN error
    ELSE [instanceofError |-> TRUE, message |-> error]

\* this.retryAttempts.set(operationId, n)
MapSet(map, operationId, n) ==
    [id \in DOMAIN map \cup {operationId} |-> IF id = operationId THEN n ELSE map[id]]

\* this.retryAttempts.delete(operationId)
MapDelete(map, operationId) == [id \in DOMAIN map \ {operationId} |-> map[id]]

\* the arguments of a call, with maxRetries = this.MAX_RETRY_ATTEMPTS when the
\* option is left out, and the locals before the loop
NewExecutions ==
    { [operationId |-> id, maxRetries |-> m, onRetry |-> cb,
       at |-> "start", attempt |-> 1, lastError |-> Undefined,
       calls |-> 0, thrown |-> Undefined, outcome |-> Undefined] :
        id \in {"fetch", "push"},
        m \in (-1)..MaxRetries \cup {MAX_RETRY_ATTEMPTS},
        cb \in {"undefined", "returns", "throws"} }

\* the loop condition with one attempt more
LoopContinuesOnceMore(attempt, maxRetries) == attempt <= maxRetries + 1

\* attempt <= maxRetries
LoopContinues(attempt, maxRetries) == attempt <= maxRetries

\* the loop from its condition on, for the execution e: the next call of the
\* operation, or the end of lines 942-944
FromLoopTest(e) ==
    IF LoopContinues(e.attempt, e.maxRetries)
    THEN /\ execution' = [e EXCEPT !.at = "awaitingOperation", !.calls = @ + 1]
         /\ UNCHANGED retryAttempts
    ELSE /\ retryAttempts' = MapSet(retryAttempts, e.operationId, e.maxRetries)
         /\ execution' = [e EXCEPT !.at = "rejected", !.outcome = e.lastError]

----------------------------------------------------------------------------
(* The calls the model makes.                                              *)

MaxPieces == 3
MaxTail == 2
MaxCommitPieces == 3
MaxLines == 3
MaxTextPieces == 3

Pad(c, n) == [i \in 1..n |-> c]

\* the concatenations of at most n pieces of P
RECURSIVE Words(_, _)
Words(P, n) ==
    IF n = 0 THEN {<<>>}
    ELSE Words(P, n - 1) \cup {w \o p : w \in Words(P, n - 1), p \in P}

BranchPieces ==
    { <<"a">>, <<".">>, <<"/">>, <<"-">>, <<" ">>, <<"\t">>, <<SOH>>, <<"~">>,
      <<"H","E","A","D">>, <<".","l","o","c","k">>, <<"r","e","f","s","/">> }

BranchInputs == Words(BranchPieces, MaxPieces)

\* the names that are validated under every set of options
ShortBranchInputs == Words(BranchPieces, MaxPieces - 1)

\* names around the 250 characters of maxLength and of the sanitizer's cut
LongBranchInputs == {Pad("a", 249) \o w : w \in Words(BranchPieces \cup {<<"_">>}, MaxTail)}

\* the names of the unit tests "should accept valid branch names" and "should
\* reject invalid branch names"
validNames ==
    { <<"m","a","i","n">>,
      <<"d","e","v","e","l","o","p">>,
      <<"f","e","a","t","u","r","e","/","a","d","d","-","l","o","g","i","n">>,
      <<"b","u","g","f","i","x","/","f","i","x","-","c","r","a","s","h">>,
      <<"h","o","t","f","i","x","/","s","e","c","u","r","i","t","y","-","p","a","t","c","h">>,
      <<"r","e","l","e","a","s","e","/","v","1",".","0",".","0">>,
      <<"u","s","e","r","/","j","o","h","n","/","e","x","p","e","r","i","m","e","n","t">> }

invalidNames ==
    { <<>>,
      <<"-","f","e","a","t","u","r","e">>,
      <<"f","e","a","t","u","r","e","-">>,
      <<"f","e","a","t","u","r","e",".",".","t","e","s","t">>,
      <<"f","e","a","t","u","r","e","~","t","e","s","t">>,
      <<"f","e","a","t","u","r","e","^","t","e","s","t">>,
      <<"f","e","a","t","u","r","e",":","t","e","s","t">>,
      <<"f","e","a","t","u","r","e","\\","t","e","s","t">>,
      <<"f","e","a","t","u","r","e"," ","t","e","s","t">>,
      <<".","h","i","d","d","e","n">>,
      <<"f","e","a","t","u","r","e",".","l","o","c","k">>,
      <<"r","e","f","s","/","h","e","a","d","s","/","x">> }

\* the cases of the unit test "should sanitize branch names"
sanitizeTestCases ==
    { [input |-> <<"F","e","a","t","u","r","e"," ","N","a","m","e">>, expected |-> <<"f","e","a","t","u","r","e","-","n","a","m","e">>],
      [input |-> <<"f","i","x",":"," ","b","u","g"," ","#","1","2","3">>, expected |-> <<"f","i","x","-","b","u","g","-","1","2","3">>],
      [input |-> <<" "," ","s","p","a","c","e","s"," "," ">>, expected |-> <<"s","p","a","c","e","s">>],
      [input |-> <<"f","e","a","t","u","r","e",".",".","t","e","s","t">>, expected |-> <<"f","e","a","t","u","r","e",".","t","e","s","t">>] }

BranchOptionSets ==
    { <<>>,
      [maxLength |-> 0],
      [maxLength |-> 2, reservedNames |-> << <<"A">> >>],
      [allowSlash |-> FALSE, enforcePrefix |-> << <<"a">> >>],
      [enforcePrefix |-> <<>>],
      [enforcePrefix |-> << <<"a">>, <<"-">> >>],
      [pattern |-> [source |-> "^[a-z/-]+$", global |-> FALSE, lastIndex |-> 0]],
      [pattern |-> [source |-> "^[a-z/-]+$", global |-> TRUE, lastIndex |-> 0]],
      [enforcePrefix |-> << <<"a">> >>,
       pattern       |-> [source |-> "^[a-z]", global |-> FALSE, lastIndex |-> 0]],
      [enforcePrefix |-> << <<"a">> >>,
       pattern       |-> [source |-> "^[a-z]", global |-> TRUE, lastIndex |-> 0]] }

CommitPieces ==
    { <<"f","i","x">>, <<"U">>, <<"(","s",")">>, <<"f","i","x","(","s",")">>, <<"!">>,
      <<":">>, <<":"," ">>, <<" ">>, <<"\n">>, <<".">> }

CommitInputs == Words(CommitPieces, MaxCommitPieces)

\* the messages that are validated under every set of options
ShortCommitInputs ==
    Words(CommitPieces, MaxCommitPieces - 1)
    \cup { type \o scope \o bang \o <<":", " ", "d">> \o rest :
             type \in {<<"f","i","x">>, <<"U">>},
             scope \in {<<>>, <<"(","s",")">>, <<"(","t",")">>},
             bang \in {<<>>, <<"!">>},
             rest \in {<<>>, <<".">>, <<"\n","b","\n","b","b">>} }

\* subjects around the 72 characters of maxSubjectLength
LongCommitInputs ==
    { pre \o Pad("A", n) \o post :
        n \in {69, 72, 73, 100},
        pre \in {<<>>, <<" ">>},
        post \in {<<>>, <<" ">>, <<"\n","\n">> \o Pad("b", 101)} }

\* messages with a body of at most MaxLines + 1 short lines
BodyInputs ==
    { subject \o rest :
        subject \in {<<"f","i","x",":"," ","d">>, <<"d",".">>},
        rest \in Words({<<"\n">> \o line : line \in {<<>>, <<" ">>, <<"b">>, <<"b","b">>}},
                       MaxLines + 1) }

\* conventional and other subjects with whitespace before and after them
PaddedSubjects ==
    { pre \o subject \o post :
        subject \in {<<"f","i","x",":"," ","d">>, <<"f","i","x","(","s",")","!",":","d">>,
                     <<"f","i","x"," ","d">>},
        pre \in {<<>>, <<" ">>, <<"\t"," ">>},
        post \in {<<>>, <<" ">>, <<" ","\n","\n","b">>} }

CommitOptionSets ==
    { <<>>,
      [maxSubjectLength |-> 72],
      [maxSubjectLength |-> 0, maxBodyLineLength |-> 0],
      [maxSubjectLength |-> 2, maxBodyLineLength |-> 1],
      [maxSubjectLength |-> 4, requireType |-> TRUE],
      [requireType |-> TRUE],
      [requireType |-> TRUE, requireScope |-> TRUE],
      [maxSubjectLength |-> 0, requireType |-> TRUE],
      [requireType |-> TRUE, requireScope |-> TRUE, allowedTypes |-> << <<"U">> >>,
       allowedScopes |-> << <<"t">> >>],
      [requireType |-> TRUE, allowedScopes |-> <<>>],
      [requireType |-> TRUE, allowedTypes |-> << <<"U">> >>, allowedScopes |-> << <<"t">> >>],
      [requireScope |-> TRUE, allowedTypes |-> <<>>, allowedScopes |-> <<>>] }

\* the cases of the unit test "should parse valid conventional commits"
parseTestCases ==
    { [message  |-> <<"f","e","a","t",":"," ","a","d","d"," ","n","e","w"," ","f","e","a","t","u","r","e">>,
       expected |-> [type |-> <<"f","e","a","t">>, breaking |-> FALSE, description |-> <<"a","d","d"," ","n","e","w"," ","f","e","a","t","u","r","e">>]],
      [message  |-> <<"f","i","x","(","a","u","t","h",")",":"," ","r","e","s","o","l","v","e"," ","l","o","g","i","n"," ","i","s","s","u","e">>,
       expected |-> [type |-> <<"f","i","x">>, scope |-> <<"a","u","t","h">>, breaking |-> FALSE,
                     description |-> <<"r","e","s","o","l","v","e"," ","l","o","g","i","n"," ","i","s","s","u","e">>]],
      [message  |-> <<"f","e","a","t","!",":"," ","b","r","e","a","k","i","n","g"," ","c","h","a","n","g","e">>,
       expected |-> [type |-> <<"f","e","a","t">>, breaking |-> TRUE, description |-> <<"b","r","e","a","k","i","n","g"," ","c","h","a","n","g","e">>]],
      [message  |-> <<"f","e","a","t","(","a","p","i",")","!",":"," ","m","a","j","o","r"," ","a","p","i"," ","c","h","a","n","g","e">>,
       expected |-> [type |-> <<"f","e","a","t">>, scope |-> <<"a","p","i">>, breaking |-> TRUE,
                     description |-> <<"m","a","j","o","r"," ","a","p","i"," ","c","h","a","n","g","e">>]] }

\* the messages of the unit test "should return null for non-conventional
\* commits"
nonConventional ==
    { <<"A","d","d"," ","n","e","w"," ","f","e","a","t","u","r","e">>,
      <<"u","p","d","a","t","e",":"," ","s","o","m","e","t","h","i","n","g">>,
      <<"F","I","X",":"," ","u","p","p","e","r","c","a","s","e">> }

\* messages whose footer announces a breaking change
BreakingFooterMessages ==
    { <<"f","e","a","t",":"," ","d","\n","\n","B","R","E","A","K","I","N","G"," ","C","H","A","N","G","E",":"," ","x">>,
      <<"f","i","x","(","s",")",":"," ","d","\n","\n","b","\n","\n","B","R","E","A","K","I","N","G","-","C","H","A","N","G","E",":"," ","x">> }

ParseInputs ==
    CommitInputs \cup {t.message : t \in parseTestCases} \cup nonConventional
    \cup BreakingFooterMessages

\* the lines of a message after its subject
ParseLines == { <<"b">>, <<>>, <<" ">>, <<"N",":"," ","b">>, <<"F"," ","#","1">>, <<"-","b",":">> }

\* a conventional subject, a second line and at most MaxLines further lines
MultiLineMessages ==
    { <<"f","i","x",":"," ","d">> \o <<"\n">> \o second \o rest :
        second \in ParseLines,
        rest \in Words({<<"\n">> \o line : line \in ParseLines}, MaxLines) }

TagInputs ==
    Words({ <<"v">>, <<"1">>, <<".">>, <<"-">>, <<"+">>, <<" ">>, <<"~">>,
            <<"1",".","0",".","2">> }, MaxPieces)

\* the tags of the unit tests "should accept valid tag names" and "should
\* reject invalid tag names"
validTags ==
    { <<"v","1",".","0",".","0">>,
      <<"r","e","l","e","a","s","e","-","1",".","2",".","3">>,
      <<"b","e","t","a">>,
      <<"2","0","2","3",".","0","1",".","1","5">>,
      <<"v","1",".","0",".","0","-","a","l","p","h","a",".","1">> }

invalidTags ==
    { <<>>,
      <<" ","v","1",".","0",".","0">>,
      <<"v","1",".","0",".","0"," ">>,
      <<"v","1",".",".","0",".","0">>,
      <<"-","v","1",".","0",".","0">> }

RemoteNameInputs ==
    Words({ <<"o","r","i","g","i","n">>, <<"F","o","r","k">>, <<"a">>, <<"/">>,
            <<" ">>, <<"@">> }, MaxPieces)

UrlInputs ==
    { prefix \o rest :
        prefix \in { <<>>, <<"h","t","t","p","s",":","/","/">>, <<"H","t","t","p",":","/","/">>,
                     <<"g","i","t","@">>, <<"G","i","t","@","h",":">>, <<"u","@","h",":">>,
                     <<"s","s","h",":","/","/">>, <<"F","I","L","E",":","/","/">>,
                     <<"g","i","t",":","/","/">>, <<"f","t","p",":","/","/">>,
                     <<"f","i","l","e",":","/","/">> },
        rest \in Words({ <<"h">>, <<"/">>, <<":">>, <<" ">>, <<".","g","i","t">>,
                         <<".","G","I","T">> }, MaxPieces) }

\* the URLs of the unit tests "should accept valid HTTPS URLs", "should accept
\* valid SSH URLs" and "should reject invalid URLs"
validHttpsUrls ==
    { <<"h","t","t","p","s",":","/","/","g","i","t","h","u","b",".","c","o","m","/","u","s","e","r","/","r","e","p","o",".","g","i","t">>,
      <<"h","t","t","p","s",":","/","/","g","i","t","l","a","b",".","c","o","m","/","u","s","e","r","/","r","e","p","o",".","g","i","t">>,
      <<"h","t","t","p","s",":","/","/","b","i","t","b","u","c","k","e","t",".","o","r","g","/","u","s","e","r","/","r","e","p","o",".","g","i","t">>,
      <<"h","t","t","p","s",":","/","/","g","i","t","h","u","b",".","c","o","m","/","u","s","e","r","/","r","e","p","o">> }

validSshUrls ==
    { <<"g","i","t","@","g","i","t","h","u","b",".","c","o","m",":","u","s","e","r","/","r","e","p","o",".","g","i","t">>,
      <<"g","i","t","@","g","i","t","l","a","b",".","c","o","m",":","u","s","e","r","/","r","e","p","o",".","g","i","t">>,
      <<"s","s","h",":","/","/","g","i","t","@","g","i","t","h","u","b",".","c","o","m","/","u","s","e","r","/","r","e","p","o",".","g","i","t">> }

invalidUrls ==
    { <<>>,
      <<"n","o","t","-","a","-","u","r","l">>,
      <<"f","t","p",":","/","/","g","i","t","h","u","b",".","c","o","m","/","u","s","e","r","/","r","e","p","o",".","g","i","t">>,
      <<"f","i","l","e",":","/","/","/","p","a","t","h","/","t","o","/","r","e","p","o">> }

\* the names a caller asks the BranchProtectionManager about
ProtectionNames ==
    Words({ <<"m","a","i","n">>, <<"m","a","s","t","e","r">>, <<"d","e","v","e","l","o","p">>, <<"r","e","l","e","a","s","e","/">>, <<"h","o","t","f","i","x","/">>,
            <<"v","1">>, <<"/">>, <<"\n">> }, MaxPieces)

\* the names of the unit tests "should identify protected branches" and
\* "should allow non-protected branches"
protectionTestNames ==
    { <<"m","a","i","n">>, <<"m","a","s","t","e","r">>, <<"d","e","v","e","l","o","p">>,
      <<"r","e","l","e","a","s","e","/","v","1",".","0",".","0">>, <<"h","o","t","f","i","x","/","u","r","g","e","n","t">>,
      <<"f","e","a","t","u","r","e","/","n","e","w","-","f","e","a","t","u","r","e">>, <<"b","u","g","f","i","x","/","f","i","x","-","i","s","s","u","e">>,
      <<"u","s","e","r","/","e","x","p","e","r","i","m","e","n","t">> }

\* values of the setting gitNova.branchProtection.rules: not set, empty, and
\* lists whose rules overlap or do not compile
CustomRules ==
    { Undefined,
      <<>>,
      << [pattern |-> <<".","*">>, isRegex |-> TRUE, preventDelete |-> FALSE,
         preventForcePush |-> TRUE, requirePullRequest |-> FALSE,
         requireLinearHistory |-> FALSE, requireSignedCommits |-> FALSE],
         [pattern |-> <<"m","a","i","n">>, isRegex |-> FALSE, preventDelete |-> TRUE,
         preventForcePush |-> TRUE, requirePullRequest |-> FALSE,
         requireLinearHistory |-> FALSE, requireSignedCommits |-> FALSE] >>,
      << [pattern |-> <<"m","a","i","n">>, isRegex |-> TRUE, preventDelete |-> FALSE,
         preventForcePush |-> TRUE, requirePullRequest |-> FALSE,
         requireLinearHistory |-> FALSE, requireSignedCommits |-> FALSE],
         [pattern |-> <<"m","a","i","n">>, isRegex |-> FALSE, preventDelete |-> TRUE,
         preventForcePush |-> TRUE, requirePullRequest |-> FALSE,
         requireLinearHistory |-> FALSE, requireSignedCommits |-> FALSE],
         [pattern |-> <<"(">>, isRegex |-> TRUE, preventDelete |-> TRUE,
         preventForcePush |-> TRUE, requirePullRequest |-> FALSE,
         requireLinearHistory |-> FALSE, requireSignedCommits |-> FALSE] >>,
      << [pattern |-> <<"(">>, isRegex |-> TRUE, preventDelete |-> TRUE,
         preventForcePush |-> TRUE, requirePullRequest |-> FALSE,
         requireLinearHistory |-> FALSE, requireSignedCommits |-> FALSE],
         [pattern |-> <<"^","r","e","l","e","a","s","e","/",".","*","$">>, isRegex |-> TRUE, preventDelete |-> TRUE,
         preventForcePush |-> TRUE, requirePullRequest |-> FALSE,
         requireLinearHistory |-> FALSE, requireSignedCommits |-> FALSE],
         [pattern |-> <<".","*">>, isRegex |-> TRUE, preventDelete |-> FALSE,
         preventForcePush |-> TRUE, requirePullRequest |-> FALSE,
         requireLinearHistory |-> FALSE, requireSignedCommits |-> FALSE] >> }

StashInputs ==
    { pre \o Pad("m", n) \o post :
        n \in {0, 1, 499, 500, 501}, pre \in {<<>>, <<" ">>}, post \in {<<>>, <<"\n">>, <<"!">>} }

PathInputs == Words({ <<"a">>, <<".">>, <<".",".">>, <<"/">>, <<" ">>, <<NUL>> }, MaxPieces)

\* paths with '..' as a segment and inside a name
PathExamples ==
    { <<"f","o","o",".",".","b","a","r">>, <<"a","/",".",".","/","b">>, <<".",".","/","a">>, <<"a","/",".",".">>, <<".",".">>,
      <<" ",".",".">>, <<"a","/",".","."," ">> }

Types == { <<"f","i","x">>, <<"U","_","1">> }

Scopes == { <<>>, <<"s">>, <<"s"," ","(">> }

Descriptions == { <<>>, <<"d">>, <<" ","d">>, <<"d",":"," ",")">>, <<" ">> }

TextPieces ==
    { <<"b">>, <<"\n">>, <<" ">>, <<"N",":"," ","b">>, <<"F"," ","#","1">> }

\* the subject arguments of generateConventionalCommit
SubjectArgs ==
    { [type |-> t, description |-> d, breaking |-> br] @@ sc :
        t \in Types, d \in Descriptions, br \in BOOLEAN,
        sc \in {<<>>} \cup {[scope |-> x] : x \in Scopes} }

\* its body and footer arguments, of at most MaxTextPieces pieces together
TextArgs ==
    UNION { { bo @@ fo :
                bo \in {<<>>} \cup {[body |-> x] : x \in Words(TextPieces, i)},
                fo \in {<<>>} \cup {[footer |-> x] : x \in Words(TextPieces, MaxTextPieces - i)} } :
            i \in 0..MaxTextPieces }

\* the arguments of generateConventionalCommit (a key is left out when the
\* argument is undefined): every subject with a few texts, and every text with
\* a few subjects
FieldSets ==
    { su @@ te :
        su \in SubjectArgs,
        te \in { <<>>,
                 [body |-> <<"b","\n","b">>],
                 [body |-> <<"b">>, footer |-> <<"F"," ","#","1">>] } }
    \cup
    { su @@ te :
        su \in { [type |-> <<"f","i","x">>, description |-> <<"d">>, breaking |-> FALSE],
                 [type |-> <<"f","i","x">>, description |-> <<"d">>, breaking |-> TRUE,
                  scope |-> <<"s">>] },
        te \in TextArgs }

----------------------------------------------------------------------------
(* The state machine: a caller makes a call, the call returns.             *)

Call(f, inputs, optionSets) ==
    /\ pc = "call"
    /\ fn = f
    /\ input \in inputs
    /\ options \in optionSets
    /\ fields = <<>>
    /\ result = <<>>
    /\ origin = "caller"
    /\ lastIndex = 0
    /\ protectionRules = DEFAULT_PROTECTED_BRANCHES
    /\ retryAttempts = EmptyMap
    /\ execution = NoExecution

\* a call of the BranchProtectionManager, after its rules were loaded
ManagerCall(f, names, settings) ==
    /\ pc = "call"
    /\ fn = f
    /\ input \in names
    /\ options = <<>>
    /\ fields = <<>>
    /\ result = <<>>
    /\ origin = "caller"
    /\ lastIndex = 0
    /\ protectionRules \in {loadConfiguration(customRules) : customRules \in settings}
    /\ retryAttempts = EmptyMap
    /\ execution = NoExecution

\* a call of executeWithRetry on a new ErrorHandlerService
RetryCall ==
    /\ pc = "idle"
    /\ fn = "executeWithRetry"
    /\ input = <<>>
    /\ options = <<>>
    /\ fields = <<>>
    /\ result = <<>>
    /\ origin = "caller"
    /\ lastIndex = 0
    /\ protectionRules = DEFAULT_PROTECTED_BRANCHES
    /\ retryAttempts = EmptyMap
    /\ execution \in NewExecutions

Init ==
    \/ Call("validateBranchName", BranchInputs \cup LongBranchInputs, {<<>>})
    \/ Call("validateBranchName", ShortBranchInputs \cup validNames \cup invalidNames,
            BranchOptionSets)
    \/ Call("sanitizeBranchName", BranchInputs \cup LongBranchInputs \cup invalidNames, {<<>>})
    \/ Call("sanitizeBranchName", {t.input : t \in sanitizeTestCases}, {<<>>})
    \/ Call("validateCommitMessage", CommitInputs, {<<>>, [requireType |-> TRUE]})
    \/ Call("validateCommitMessage", ShortCommitInputs \cup LongCommitInputs, CommitOptionSets)
    \/ Call("validateCommitMessage", PaddedSubjects, {<<>>, [requireType |-> TRUE]})
    \/ Call("parseConventionalCommit", PaddedSubjects, {<<>>})
    \/ Call("validateCommitMessage", BodyInputs,
            {[maxBodyLineLength |-> 1], [maxBodyLineLength |-> 0], [requireType |-> TRUE]})
    \/ Call("validateTagName", TagInputs \cup validTags \cup invalidTags, {<<>>})
    \/ Call("validateRemoteName", RemoteNameInputs, {<<>>})
    \/ Call("validateRemoteUrl", UrlInputs, {<<>>})
    \/ Call("validateRemoteUrl", validHttpsUrls \cup validSshUrls \cup invalidUrls, {<<>>})
    \/ Call("validateStashMessage", StashInputs, {<<>>})
    \/ Call("validateFilePath", PathInputs \cup PathExamples, {<<>>})
    \/ Call("parseConventionalCommit", ParseInputs \cup MultiLineMessages, {<<>>})
    \/ /\ pc = "call"
       /\ fn = "generateConventionalCommit"
       /\ input = <<>>
       /\ options = <<>>
       /\ fields \in FieldSets
       /\ result = <<>>
       /\ lastIndex = 0
       /\ protectionRules = DEFAULT_PROTECTED_BRANCHES
       /\ retryAttempts = EmptyMap
       /\ execution = NoExecution
       /\ origin = "caller"
    \/ ManagerCall("isProtected", ProtectionNames \cup protectionTestNames, CustomRules)
    \/ ManagerCall("getProtectionRule", ProtectionNames \cup protectionTestNames, CustomRules)
    \/ RetryCall

Return(f, value) ==
    /\ pc = "call"
    /\ fn = f
    /\ pc' = "return"
    /\ result' = value
    /\ UNCHANGED <<fn, input, options, fields, origin, lastIndex, protectionRules>>
    /\ UNCHANGED retryVars

\* the call leaves in the caller's pattern what pattern.test left there
ValidateBranchName ==
    /\ pc = "call"
    /\ fn = "validateBranchName"
    /\ pc' = "return"
    /\ result' = validateBranchName(input, options)
    /\ lastIndex' = IF ReachesPatternTest(input, options)
                    THEN LastIndexAfterTest(options.pattern, trim(input))
                    ELSE lastIndex
    /\ UNCHANGED <<fn, input, options, fields, origin, protectionRules>>
    /\ UNCHANGED retryVars

SanitizeBranchName == Return("sanitizeBranchName", sanitizeBranchName(input))

ValidateCommitMessage == Return("validateCommitMessage", validateCommitMessage(input, options))

ValidateTagName == Return("validateTagName", validateTagName(input))

ValidateRemoteName == Return("validateRemoteName", validateRemoteName(input))

ValidateRemoteUrl == Return("validateRemoteUrl", validateRemoteUrl(input))

ValidateStashMessage == Return("validateStashMessage", validateStashMessage(input))

ValidateFilePath == Return("validateFilePath", validateFilePath(input))

GenerateConventionalCommit ==
    Return("generateConventionalCommit", generateConventionalCommit(fields))

ParseConventionalCommit == Return("parseConventionalCommit", parseConventionalCommit(input))

GetProtectionRule == Return("getProtectionRule", getProtectionRule(input, protectionRules))

IsProtected == Return("isProtected", isProtected(input, protectionRules))

\* the caller passes the string a call returned to the next call
PassOn(from, to) ==
    /\ pc = "return"
    /\ fn = from
    /\ origin = "caller"
    /\ pc' = "call"
    /\ fn' = to
    /\ input' = result
    /\ options' = <<>>
    /\ result' = <<>>
    /\ origin' = from
    /\ UNCHANGED <<fields, lastIndex, protectionRules>>
    /\ UNCHANGED retryVars

ValidateSanitized == PassOn("sanitizeBranchName", "validateBranchName")

SanitizeAgain == PassOn("sanitizeBranchName", "sanitizeBranchName")

ParseGenerated == PassOn("generateConventionalCommit", "parseConventionalCommit")

\* the caller makes the call that returned once more, with the same name and
\* the same options object: its pattern is as the first call left it
CallAgain ==
    /\ pc = "return"
    /\ fn = "validateBranchName"
    /\ origin = "caller"
    /\ pc' = "call"
    /\ options' = IF "pattern" \in DOMAIN options
                  THEN [options EXCEPT !.pattern.lastIndex = lastIndex]
                  ELSE options
    /\ result' = <<>>
    /\ origin' = "validateBranchName"
    /\ UNCHANGED <<fn, input, fields, lastIndex, protectionRules>>
    /\ UNCHANGED retryVars

callVars == <<pc, fn, input, options, fields, result, origin, lastIndex, protectionRules>>

\* executeWithRetry up to its first await: lines 921-927, or 921-944 when the
\* loop makes no attempt
ExecuteWithRetry ==
    /\ execution.at = "start"
    /\ FromLoopTest(execution)
    /\ UNCHANGED callVars

\* the awaited operation resolves: lines 927-930
OperationResolves ==
    /\ execution.at = "awaitingOperation"
    /\ retryAttempts' = MapDelete(retryAttempts, execution.operationId)
    /\ execution' = [execution EXCEPT !.at = "resolved",
                                      !.outcome = ValueOf(execution.attempt)]
    /\ UNCHANGED callVars

\* the awaited operation rejects, or throws: the catch block of lines 931-939,
\* up to the await of the delay, or through the last turn of the loop to line 944
OperationRejects ==
    /\ execution.at = "awaitingOperation"
    /\ \E error \in {ErrorOf(execution.attempt), StringOf(execution.attempt)} :
         LET caught == [execution EXCEPT !.thrown = error, !.lastError = AsError(error)]
         IN  IF caught.attempt < caught.maxRetries
             THEN /\ execution' = IF caught.onRetry = "throws"
                                  THEN [caught EXCEPT !.at = "rejected",
                                                      !.outcome = OnRetryError]
                                  ELSE [caught EXCEPT !.at = "awaitingDelay"]
                  /\ UNCHANGED retryAttempts
             ELSE FromLoopTest([caught EXCEPT !.attempt = @ + 1])
    /\ UNCHANGED callVars

\* the awaited delay is over: attempt++ and the next turn of the loop
DelayElapses ==
    /\ execution.at = "awaitingDelay"
    /\ FromLoopTest([execution EXCEPT !.attempt = @ + 1])
    /\ UNCHANGED callVars

\* the service is asked again once the promise has settled
ExecuteAgain ==
    /\ execution.at \in {"resolved", "rejected"}
    /\ execution' \in NewExecutions
    /\ UNCHANGED retryAttempts
    /\ UNCHANGED callVars

Next ==
    \/ ValidateBranchName
    \/ SanitizeBranchName
    \/ ValidateCommitMessage
    \/ ValidateTagName
    \/ ValidateRemoteName
    \/ ValidateRemoteUrl
    \/ ValidateStashMessage
    \/ ValidateFilePath
    \/ GenerateConventionalCommit
    \/ ParseConventionalCommit
    \/ ValidateSanitized
    \/ SanitizeAgain
    \/ ParseGenerated
    \/ CallAgain
    \/ GetProtectionRule
    \/ IsProtected
    \/ ExecuteWithRetry
    \/ OperationResolves
    \/ OperationRejects
    \/ DelayElapses
    \/ ExecuteAgain

Spec == Init /\ [][Next]_vars

----------------------------------------------------------------------------
(* What the specification says of these operations.                        *)

Returned(f) == pc = "return" /\ fn = f

Validators ==
    { "validateBranchName", "validateCommitMessage", "validateTagName", "validateRemoteName",
      "validateRemoteUrl", "validateFilePath", "validateStashMessage" }

ValidatorReturned == pc = "return" /\ fn \in Validators

Has(key) == key \in DOMAIN result

\* the least element of a non-empty set of numbers
Least(S) == CHOOSE k \in S : \A j \in S : k <= j

\* C1: a non-empty string returned by sanitizeBranchName is a valid branch
\* name under the default options.
C1_SanitizedNameIsValid ==
    (Returned("validateBranchName") /\ origin = "sanitizeBranchName" /\ input # <<>>)
        => result.valid

\* C2: sanitizeBranchName is idempotent: sanitizing a string it returned
\* returns that string.
C2_SanitizeIsIdempotent ==
    (Returned("sanitizeBranchName") /\ origin = "sanitizeBranchName") => result = input

----------------------------------------------------------------------------
(* The round trip of generateConventionalCommit and parseConventionalCommit. *)

ParsedGenerated == Returned("parseConventionalCommit") /\ origin = "generateConventionalCommit"

\* an optional argument and the parsed field agree: both undefined, or equal
SameOptional(key) ==
    /\ key \in DOMAIN fields <=> key \in DOMAIN result
    /\ key \in DOMAIN fields => result[key] = fields[key]

RoundTrips ==
    /\ result # Null
    /\ result.type = fields.type
    /\ result.breaking = fields.breaking
    /\ result.description = fields.description
    /\ SameOptional("scope")
    /\ SameOptional("body")
    /\ SameOptional("footer")

\* the arguments the round trip is claimed for: a type matching \w+, scope and
\* description free of ')', ':' and newlines
RoundTripArguments ==
    /\ fields.type # <<>>
    /\ ~HasChar(fields.type, Range(fields.type) \ WordChars)
    /\ "scope" \in DOMAIN fields => ~HasChar(fields.scope, {")", ":", "\n", "\r"})
    /\ ~HasChar(fields.description, {")", ":", "\n", "\r"})

\* the arguments the parser gives back as they were: a scope that is not
\* empty, a description that is not empty and does not start with whitespace,
\* a trimmed non-empty body none of whose lines starts a footer, a trimmed
\* non-empty footer whose first line starts a footer
ParserKeepsArguments ==
    /\ "scope" \in DOMAIN fields => fields.scope # <<>>
    /\ fields.description # <<>>
    /\ fields.description[1] \notin WhitespaceChars
    /\ "body" \in DOMAIN fields =>
          /\ fields.body # <<>>
          /\ trim(fields.body) = fields.body
          /\ \A i \in 1..Len(SplitLines(fields.body)) : ~FooterStart(SplitLines(fields.body)[i])
    /\ "footer" \in DOMAIN fields =>
          /\ fields.footer # <<>>
          /\ trim(fields.footer) = fields.footer
          /\ FooterStart(SplitLines(fields.footer)[1])

----------------------------------------------------------------------------
(* The sixteen rules of validateBranchName, in the order of the            *)
(* specification (section 4.1), of a trimmed name n under the options o.   *)

Violates(k, n, o) ==
    CASE k = 1  -> n = <<>>
      [] k = 2  -> Len(n) > o.maxLength
      [] k = 3  -> \E i \in 1..Len(o.reservedNames) : o.reservedNames[i] = toUpperCase(n)
      [] k = 4  -> Len(n) > 0 /\ n[1] = "."
      [] k = 5  -> Len(n) > 0 /\ n[Len(n)] = "."
      [] k = 6  -> Len(n) >= 5 /\ SubSeq(n, Len(n) - 4, Len(n)) = <<".","l","o","c","k">>
      [] k = 7  -> \E i \in 1..(Len(n) - 1) : n[i] = "." /\ n[i + 1] = "."
      [] k = 8  -> Len(n) > 0 /\ n[1] = "-"
      [] k = 9  -> Len(n) > 0 /\ n[Len(n)] = "/"
      [] k = 10 -> \E i \in 1..(Len(n) - 1) : n[i] = "/" /\ n[i + 1] = "/"
      [] k = 11 -> \E i \in 1..Len(n) : n[i] \in WhitespaceChars
      [] k = 12 -> \E i \in 1..Len(n) : n[i] \in ControlChars
      [] k = 13 -> \E i \in 1..Len(n) : n[i] \in SpecialChars
      [] k = 14 -> ~o.allowSlash /\ \E i \in 1..Len(n) : n[i] = "/"
      [] k = 15 -> /\ "enforcePrefix" \in DOMAIN o
                   /\ o.enforcePrefix # <<>>
                   /\ \A i \in 1..Len(o.enforcePrefix) :
                         ~startsWith(n, o.enforcePrefix[i] \o <<"/">>)
      [] k = 16 -> "pattern" \in DOMAIN o /\ ~RegExpTest(o.pattern, n)

\* the error of rule k
RuleError(k, n, o) ==
    CASE k = 1  -> Text("Branch name cannot be empty")
      [] k = 2  -> Fmt("Branch name exceeds maximum length of ${opts.maxLength} characters",
                       <<o.maxLength>>)
      [] k = 3  -> Fmt("'${trimmedName}' is a reserved name and cannot be used as a branch name",
                       <<n>>)
      [] k = 4  -> Text("Branch name cannot start with a dot")
      [] k = 5  -> Text("Branch name cannot end with a dot")
      [] k = 6  -> Text("Branch name cannot end with .lock")
      [] k = 7  -> Text("Branch name cannot contain consecutive dots")
      [] k = 8  -> Text("Branch name cannot start with a dash")
      [] k = 9  -> Text("Branch name cannot end with a slash")
      [] k = 10 -> Text("Branch name cannot contain consecutive slashes")
      [] k = 11 -> Text("Branch name cannot contain spaces")
      [] k = 12 -> Text("Branch name cannot contain control characters")
      [] k = 13 -> Text("Branch name cannot contain special characters: ~ ^ : ? * [ ] @ { \\")
      [] k = 14 -> Text("Branch name cannot contain slashes")
      [] k = 15 -> Fmt("Branch name must start with one of: ${opts.enforcePrefix.join(', ')}",
                       <<o.enforcePrefix>>)
      [] k = 16 -> Text("Branch name does not match the required pattern")

\* the options of the call that returned, over the defaults
GivenOptions == [k \in DOMAIN DEFAULT_BRANCH_OPTIONS \cup DOMAIN options |->
                    IF k \in DOMAIN options THEN options[k] ELSE DEFAULT_BRANCH_OPTIONS[k]]

\* the rules the name of the call that returned violates
ViolatedRules == {k \in 1..16 : Violates(k, trim(input), GivenOptions)}

\* the same, with rule 2 in force only for a maxLength other than 0
RulesInForce == ViolatedRules \ (IF GivenOptions.maxLength = 0 THEN {2} ELSE {})

ReportsRule(k) ==
    /\ ~result.valid
    /\ Has("error")
    /\ result.error = RuleError(k, trim(input), GivenOptions)

\* C4 as stated: a name that violates several rules gets the error of the
\* first of them in the order 1..16, and only that error.
C4_FirstRuleWins ==
    (Returned("validateBranchName") /\ Cardinality(ViolatedRules) >= 2)
        => ReportsRule(Least(ViolatedRules))

\* C4 as amended: a name that violates several rules gets the error of the
\* first of them in the order 1..16, and only that error, where rule 2 is in
\* force only when maxLength is not 0.
C4_FirstRuleInForceWins ==
    (Returned("validateBranchName") /\ Cardinality(RulesInForce) >= 2)
        => ReportsRule(Least(RulesInForce))

C4_FirstRuleWitness ==
    /\ Returned("validateBranchName")
    /\ {6, 7} \subseteq RulesInForce
    /\ ReportsRule(6)

----------------------------------------------------------------------------
(* The shape of a ValidationResult.                                        *)

\* the failures that come with suggestions: no enforced prefix, a subject
\* that is too long, a subject that is not conventional when a type is
\* required, a remote URL of no known form
FailuresWithSuggestions ==
    { "Branch name must start with one of: ${opts.enforcePrefix.join(', ')}",
      "Commit subject line exceeds ${opts.maxSubjectLength} characters (${subject.length})",
      "Commit message must follow Conventional Commits format: type(scope): description",
      "Invalid remote URL format" }

\* C6 as stated: a result with an error has neither warnings nor suggestions.
C6_ErrorAlone ==
    (ValidatorReturned /\ Has("error")) => ~Has("warnings") /\ ~Has("suggestions")

\* C6 as amended: a result with an error has no warnings, and it has
\* suggestions exactly in four failures: no enforced prefix
\* (validateBranchName), a subject that is too long and a subject that is not
\* conventional when requireType is set (validateCommitMessage), and a remote
\* URL of no known form (validateRemoteUrl).
C6_ErrorWithoutWarnings ==
    (ValidatorReturned /\ Has("error")) =>
        /\ ~Has("warnings")
        /\ Has("suggestions") <=> result.error.fmt \in FailuresWithSuggestions

C6_ErrorWitness ==
    /\ Returned("validateBranchName")
    /\ Has("error")
    /\ Has("suggestions")
    /\ Len(result.suggestions) = 2

\* C7: a result of one of the seven validators has a non-empty error exactly
\* when valid is false, and has warnings only when valid is true.
C7_ErrorIffInvalid ==
    ValidatorReturned =>
        /\ (Has("error") /\ result.error.fmt # "") <=> ~result.valid
        /\ Has("warnings") => result.valid

C7_ErrorWitness ==
    /\ Returned("validateRemoteUrl")
    /\ ~result.valid
    /\ Has("error")
    /\ result.error.fmt # ""

----------------------------------------------------------------------------
(* The subject line of a commit message.                                   *)

\* the trimmed first line of the message of the call that returned
Subject == trim(SplitLines(input)[1])

MaxSubjectLength ==
    IF "maxSubjectLength" \in DOMAIN options THEN options.maxSubjectLength
    ELSE DEFAULT_COMMIT_OPTIONS.maxSubjectLength

RejectedForLength ==
    /\ ~result.valid
    /\ Has("error")
    /\ result.error.fmt =
          "Commit subject line exceeds ${opts.maxSubjectLength} characters (${subject.length})"

\* the one suggestion of that rejection: the first maxSubjectLength - 3
\* characters of the subject, followed by '...'
TruncatedSuggestion ==
    /\ Has("suggestions")
    /\ Len(result.suggestions) = 1
    /\ result.suggestions[1].fmt =
          "Consider: \"${subject.substring(0, opts.maxSubjectLength - 3)}...\""
    /\ result.suggestions[1].with =
          << [i \in 1..Max(MaxSubjectLength - 3, 0) |-> Subject[i]] >>

C9_LongSubjectWarns ==
    (Returned("validateCommitMessage") /\ MaxSubjectLength = 72 /\ Len(Subject) > 72)
        => result.valid /\ Has("warnings") /\ result.warnings # <<>>

\* C10: under the default options a name that ends with a hyphen or starts
\* with 'refs/' is rejected with a non-empty error.
C10_RejectsHyphenEndAndRefs ==
    (/\ Returned("validateBranchName")
     /\ options = <<>>
     /\ \/ endsWith(trim(input), <<"-">>)
        \/ startsWith(trim(input), <<"r","e","f","s","/">>))
        => ~result.valid /\ Has("error") /\ result.error.fmt # ""


----------------------------------------------------------------------------
(* The sanitizer on the names of its unit test.                            *)

\* C11: sanitizeBranchName lower-cases, turns each whitespace run into one
\* '-' and removes ':' and '#': each name of the unit test gives the expected
\* name ('fix: bug #123' gives 'fix-bug-123'), and no result holds ':' or '#'.
C11_SanitizeTestCases ==
    (Returned("sanitizeBranchName") /\ origin = "caller") =>
        /\ \A t \in sanitizeTestCases : input = t.input => result = t.expected
        /\ \A i \in 1..Len(result) : result[i] \notin {":", "#"}


----------------------------------------------------------------------------
(* The grammar of a conventional subject line,                             *)
(* ^(\w+)(?:\(([^)]+)\))?(!)?:\s*(.+)$, by the places where its parts end. *)

\* the first line of the message of the call that returned
FirstLine ==
    LET newlines == {i \in 1..Len(input) : input[i] = "\n"}
    IN  IF newlines = {} THEN input ELSE SubSeq(input, 1, Least(newlines) - 1)

\* s[1..a] is a type
TypeEnds(s, a) == a >= 1 /\ \A i \in 1..a : s[i] \in WordChars

\* after the type, b = a (no scope), or s[a+1..b] is '(' scope ')'
ScopeEnds(s, a, b) ==
    \/ b = a
    \/ /\ b >= a + 3
       /\ s[a + 1] = "("
       /\ s[b] = ")"
       /\ \A i \in (a + 2)..(b - 1) : s[i] # ")"

\* the colon stands at c, right after the scope or after one '!'
ColonAt(s, b, c) ==
    /\ c \in 1..Len(s)
    /\ s[c] = ":"
    /\ \/ c = b + 1
       \/ c = b + 2 /\ s[b + 1] = "!"

\* whitespace from the colon to d - 1, and a description from d to the end
DescriptionStarts(s, c, d) ==
    /\ d \in (c + 1)..Len(s)
    /\ \A i \in (c + 1)..(d - 1) : s[i] \in WhitespaceChars
    /\ \A i \in d..Len(s) : s[i] \notin {"\n", "\r"}

Conventional(s, a, b, c, d) ==
    /\ TypeEnds(s, a)
    /\ ScopeEnds(s, a, b)
    /\ ColonAt(s, b, c)
    /\ DescriptionStarts(s, c, d)

MatchesGrammar(s) ==
    \E a \in 1..Len(s) : TypeEnds(s, a) /\
        \E b \in a..Len(s) : ScopeEnds(s, a, b) /\
            \E c \in {b + 1, b + 2} : ColonAt(s, b, c) /\
                \E d \in (c + 1)..Len(s) : DescriptionStarts(s, c, d)

\* C12: parseConventionalCommit returns null exactly when the first line
\* does not match the grammar, whatever the type: 'update: something' and
\* 'FIX: uppercase' parse with their types, 'Add new feature' gives null.
C12_NullIffNoMatch ==
    Returned("parseConventionalCommit") =>
        /\ result = Null <=> ~MatchesGrammar(FirstLine)
        /\ input = <<"u","p","d","a","t","e",":"," ","s","o","m","e","t","h","i","n","g">> => result # Null /\ result.type = <<"u","p","d","a","t","e">>
        /\ input = <<"F","I","X",":"," ","u","p","p","e","r","c","a","s","e">> => result # Null /\ result.type = <<"F","I","X">>
        /\ input = <<"A","d","d"," ","n","e","w"," ","f","e","a","t","u","r","e">> => result = Null

C12_ParsedWitness ==
    /\ Returned("parseConventionalCommit")
    /\ input = <<"u","p","d","a","t","e",":"," ","s","o","m","e","t","h","i","n","g">>
    /\ result # Null
    /\ result.type = <<"u","p","d","a","t","e">>

\* what the parser is to return for a first line s with its parts ending at
\* a, b, c and the description starting at d
ParsedAs(s, a, b, c, d) ==
    /\ result # Null
    /\ result.type = SubSeq(s, 1, a)
    /\ IF b = a THEN "scope" \notin DOMAIN result
       ELSE "scope" \in DOMAIN result /\ result.scope = SubSeq(s, a + 2, b - 1)
    /\ result.breaking = (c = b + 2)
    /\ result.description = SubSeq(s, d, Len(s))

\* C13: for a first line made of a type, an optional '(scope)', an optional
\* '!', ':', whitespace and a description, parseConventionalCommit returns
\* the type as written, the text inside the parentheses as scope (undefined
\* without them), breaking true exactly when '!' stands right before the
\* colon, whatever the footer, and the text after the colon and its
\* whitespace as description; the cases of the unit test parse as expected.
C13_ParsedFields ==
    Returned("parseConventionalCommit") =>
        /\ \A a \in 1..Len(FirstLine) : TypeEnds(FirstLine, a) =>
              \A b \in a..Len(FirstLine) : ScopeEnds(FirstLine, a, b) =>
                 \A c \in {b + 1, b + 2} : ColonAt(FirstLine, b, c) =>
                    \A d \in (c + 1)..Len(FirstLine) :
                       (/\ DescriptionStarts(FirstLine, c, d)
                        /\ FirstLine[d] \notin WhitespaceChars)
                           => ParsedAs(FirstLine, a, b, c, d)
        /\ \A t \in parseTestCases : input = t.message => result = t.expected

C13_BreakingFooterWitness ==
    /\ Returned("parseConventionalCommit")
    /\ input \in BreakingFooterMessages
    /\ result # Null
    /\ ~result.breaking


----------------------------------------------------------------------------
(* Remote URLs.                                                            *)

\* the URL of the call that returned, trimmed, and in lower case
Url == trim(input)

LowerUrl == toLowerCase(Url)

NoWhitespace(s) == \A i \in 1..Len(s) : s[i] \notin WhitespaceChars

\* scheme://... .git with something between the scheme and the suffix
SchemeGitUrl(scheme) ==
    /\ startsWith(LowerUrl, scheme)
    /\ endsWith(LowerUrl, <<".","g","i","t">>)
    /\ Len(Url) > Len(scheme) + 4
    /\ NoWhitespace(Url)

\* user@host:path.git, with any user name
SshShorthand ==
    /\ NoWhitespace(Url)
    /\ endsWith(LowerUrl, <<".","g","i","t">>)
    /\ \E at \in 2..Len(Url) : \E colon \in (at + 2)..(Len(Url) - 5) :
          /\ Url[at] = "@"
          /\ Url[colon] = ":"
          /\ \A i \in 1..(colon - 1) : i # at => Url[i] \notin {":", "@", "/"}

\* an absolute path, with or without file:// before it
LocalPath ==
    LET path == IF startsWith(LowerUrl, <<"f","i","l","e",":","/","/">>)
                THEN SubSeq(Url, 8, Len(Url)) ELSE Url
    IN  Len(path) >= 2 /\ path[1] = "/" /\ NoWhitespace(path)

AcceptedUrl ==
    \/ SchemeGitUrl(<<"h","t","t","p",":","/","/">>)
    \/ SchemeGitUrl(<<"h","t","t","p","s",":","/","/">>)
    \/ SchemeGitUrl(<<"s","s","h",":","/","/">>)
    \/ SchemeGitUrl(<<"g","i","t",":","/","/">>)
    \/ SshShorthand
    \/ LocalPath

ExampleSuggestions ==
    /\ Has("suggestions")
    /\ result.suggestions = <<Text("HTTPS: https://github.com/user/repo.git"),
                              Text("SSH: git@github.com:user/repo.git")>>

\* C14: validateRemoteUrl returns valid: true for every http://, https://,
\* ssh:// and git:// URL ending in '.git', for every SSH shorthand
\* user@host:path.git and for every absolute path with or without 'file://',
\* in any letter case; every other input is invalid with the two example
\* suggestions.
C14_AcceptedUrls ==
    Returned("validateRemoteUrl") =>
        IF AcceptedUrl THEN result.valid
        ELSE ~result.valid /\ ExampleSuggestions

\* C15: an https:// URL is valid without the '.git' suffix
\* ('https://github.com/user/repo').
C15_HttpsWithoutSuffix ==
    (/\ Returned("validateRemoteUrl")
     /\ startsWith(LowerUrl, <<"h","t","t","p","s",":","/","/">>)
     /\ Len(Url) > 8
     /\ NoWhitespace(Url))
        => result.valid

\* C16: the empty string, 'not-a-url', ftp:// URLs and file:// URLs are
\* rejected.
C16_RejectedUrls ==
    (/\ Returned("validateRemoteUrl")
     /\ \/ Url = <<>>
        \/ Url = <<"n","o","t","-","a","-","u","r","l">>
        \/ startsWith(LowerUrl, <<"f","t","p",":","/","/">>)
        \/ startsWith(LowerUrl, <<"f","i","l","e",":","/","/">>))
        => ~result.valid


----------------------------------------------------------------------------
(* Tag names.                                                              *)

\* every character of s[from..to] is in C
AllIn(s, from, to, C) == \A i \in from..to : s[i] \in C

\* [v]digits.digits.digits[-identifiers][+identifiers], the whole of s:
\* d1 and d2 are the two dots, e3 the last digit of the third number, e4 the
\* last character of the pre-release part (e3 when there is none)
IsSemanticVersion(s) ==
    \E p0 \in 1..2 :
        /\ p0 = 2 => (Len(s) >= 1 /\ s[1] = "v")
        /\ \E d1 \in (p0 + 1)..Len(s) :
              /\ s[d1] = "."
              /\ AllIn(s, p0, d1 - 1, DigitChars)
              /\ \E d2 \in (d1 + 2)..Len(s) :
                    /\ s[d2] = "."
                    /\ AllIn(s, d1 + 1, d2 - 1, DigitChars)
                    /\ \E e3 \in (d2 + 1)..Len(s) :
                          /\ AllIn(s, d2 + 1, e3, DigitChars)
                          /\ \E e4 \in e3..Len(s) :
                                /\ e4 > e3 =>
                                      /\ e4 >= e3 + 2
                                      /\ s[e3 + 1] = "-"
                                      /\ AllIn(s, e3 + 2, e4, WordChars \cup {"."})
                                /\ e4 < Len(s) =>
                                      /\ Len(s) >= e4 + 2
                                      /\ s[e4 + 1] = "+"
                                      /\ AllIn(s, e4 + 2, Len(s), WordChars \cup {"."})

\* a name that none of the four tag rules rejects
WellFormedTag(s) ==
    /\ s # <<>>
    /\ \A i \in 1..Len(s) :
          s[i] \notin WhitespaceChars \cup {"~", "^", ":", "?", "*", "[", "]", "@", "{", "\\"}
    /\ s[1] # "-"

SemverSuggestion == <<Text("Consider using semantic versioning format: v1.0.0")>>

C18_RejectedTags ==
    (/\ Returned("validateTagName")
     /\ \/ input \in {<<>>, <<" ","v","1",".","0",".","0">>, <<"v","1",".","0",".","0"," ">>, <<"v","1",".",".","0",".","0">>}
        \/ startsWith(input, <<"-">>))
        => ~result.valid


----------------------------------------------------------------------------
(* What every call returns.                                                *)

\* a string of the result: a template with its arguments
IsMessage(m) == DOMAIN m = {"fmt", "with"}

IsMessageList(l) == \A i \in 1..Len(l) : IsMessage(l[i])

\* { valid: boolean; error?: string; warnings?: string[]; suggestions?: string[] }
IsValidationResult(r) ==
    /\ "valid" \in DOMAIN r
    /\ DOMAIN r \subseteq {"valid", "error", "warnings", "suggestions"}
    /\ r.valid \in BOOLEAN
    /\ "error" \in DOMAIN r => IsMessage(r.error)
    /\ "warnings" \in DOMAIN r => IsMessageList(r.warnings)
    /\ "suggestions" \in DOMAIN r => IsMessageList(r.suggestions)

\* null, or { type, scope?, breaking, description, body?, footer? }
IsParsedCommitOrNull(r) ==
    \/ r = Null
    \/ /\ {"type", "breaking", "description"} \subseteq DOMAIN r
       /\ DOMAIN r \subseteq {"type", "scope", "breaking", "description", "body", "footer"}
       /\ r.breaking \in BOOLEAN

\* C19: for every string and every well-formed options object each validator
\* returns a ValidationResult and throws nothing; sanitizeBranchName returns
\* a string and parseConventionalCommit a parsed commit or null.
C19_AlwaysReturns ==
    /\ ValidatorReturned => IsValidationResult(result)
    /\ Returned("sanitizeBranchName") => result \in Seq(STRING)
    /\ Returned("parseConventionalCommit") => IsParsedCommitOrNull(result)

C19_ReturnsWitness ==
    /\ Returned("validateCommitMessage")
    /\ "requireType" \in DOMAIN options
    /\ options.requireType
    /\ Subject # <<>>
    /\ ConventionalMatch(Subject) = Null
    /\ IsValidationResult(result)
    /\ ~result.valid


----------------------------------------------------------------------------
(* Calls made one after another.                                           *)

\* the options of the call that returned, as a caller passes them to a call
\* made alone: its pattern has not been used
OptionsOfCallAlone ==
    IF "pattern" \in DOMAIN options
    THEN [options EXCEPT !.pattern.lastIndex = 0]
    ELSE options

\* C20: no state is kept between calls: a call made after another call with
\* the same name and the same options (its pattern included) returns what the
\* call returns when made alone, and the first call changes nothing for it.
C20_CallsAreIndependent ==
    (Returned("validateBranchName") /\ origin = "validateBranchName") =>
        result = validateBranchName(input, OptionsOfCallAlone)


----------------------------------------------------------------------------
(* Protected branches.                                                     *)

\* the name of the call starts with prefix
NameStartsWith(prefix) ==
    /\ Len(input) >= Len(prefix)
    /\ \A i \in 1..Len(prefix) : input[i] = prefix[i]

\* ... and has no line terminator after it
NameOnOneLineStartsWith(prefix) ==
    /\ NameStartsWith(prefix)
    /\ \A i \in (Len(prefix) + 1)..Len(input) : input[i] \notin {"\n", "\r"}

\* the rules of protectionRules that the name of the call matches
MatchingRules == {k \in 1..Len(protectionRules) : matchesRule(input, protectionRules[k])}

\* getProtectionRule returned the first rule in list order that matches
FirstMatchReturned ==
    Returned("getProtectionRule") =>
        IF MatchingRules = {} THEN result = Undefined
        ELSE \E k \in MatchingRules :
                /\ result = protectionRules[k]
                /\ \A j \in 1..(k - 1) : j \notin MatchingRules

\* C21 as stated: with the default rules isProtected is true exactly for
\* 'main', 'master', 'develop' and the names starting with 'release/' or
\* 'hotfix/'; getProtectionRule returns the first rule in list order that
\* matches.
C21_ProtectedNames ==
    /\ (Returned("isProtected") /\ protectionRules = DEFAULT_PROTECTED_BRANCHES) =>
          (result <=> \/ input \in {<<"m","a","i","n">>, <<"m","a","s","t","e","r">>, <<"d","e","v","e","l","o","p">>}
                      \/ NameStartsWith(<<"r","e","l","e","a","s","e","/">>)
                      \/ NameStartsWith(<<"h","o","t","f","i","x","/">>))
    /\ FirstMatchReturned

\* C21, amended: ... and the names that start with 'release/' or 'hotfix/' and
\* have no line terminator after that prefix; 'feature/new-feature',
\* 'bugfix/fix-issue' and 'user/experiment' are not protected.
C21_ProtectedNamesOnOneLine ==
    /\ (Returned("isProtected") /\ protectionRules = DEFAULT_PROTECTED_BRANCHES) =>
          (result <=> \/ input \in {<<"m","a","i","n">>, <<"m","a","s","t","e","r">>, <<"d","e","v","e","l","o","p">>}
                      \/ NameOnOneLineStartsWith(<<"r","e","l","e","a","s","e","/">>)
                      \/ NameOnOneLineStartsWith(<<"h","o","t","f","i","x","/">>))
    /\ FirstMatchReturned

C21_FirstOfTwoWitness ==
    /\ Returned("getProtectionRule")
    /\ Cardinality(MatchingRules) >= 2
    /\ result = protectionRules[Least(MatchingRules)]
    /\ result # protectionRules[Len(protectionRules)]


----------------------------------------------------------------------------
(* Body and footer.                                                        *)

\* the lines of the message of the call
Lines == SplitLines(input)

\* the line starts with a token and ': ' or ' #'
StartsFooter(line) ==
    \E e \in 1..Len(line) :
        /\ \A i \in 1..e : line[i] \in WordChars \cup {"-"}
        /\ Len(line) >= e + 2
        /\ \/ line[e + 1] = ":" /\ line[e + 2] \in WhitespaceChars
           \/ line[e + 1] \in WhitespaceChars /\ line[e + 2] = "#"

\* the first line from line 3 on that starts the footer (one past the last
\* line when there is none)
FirstFooterLine ==
    IF \E i \in 3..Len(Lines) : StartsFooter(Lines[i])
    THEN Least({i \in 3..Len(Lines) : StartsFooter(Lines[i])})
    ELSE Len(Lines) + 1

\* what the part of the result named key holds: nothing, when it is left out
PartOfResult(key) == IF Has(key) THEN result[key] ELSE <<>>

C23_EmptyPartIsUndefined ==
    (Returned("parseConventionalCommit") /\ result # Null) =>
        /\ Has("body") => result.body # <<>>
        /\ Has("footer") => result.footer # <<>>


----------------------------------------------------------------------------
(* The order of the commit message checks.                                 *)

\* the options of the validateCommitMessage call, over the defaults
GivenCommitOptions ==
    [k \in DOMAIN DEFAULT_COMMIT_OPTIONS \cup DOMAIN options |->
        IF k \in DOMAIN options THEN options[k] ELSE DEFAULT_COMMIT_OPTIONS[k]]

\* type, scope, '!' of the subject, or Null when it is not conventional
SubjectMatch == ConventionalMatch(Subject)

\* the conventional check k that the message fails: 1 grammar, 2 type,
\* 3 required scope, 4 allowed scope
FailsConventional(k) ==
    LET o == GivenCommitOptions
    IN  /\ o.requireType
        /\ CASE k = 1 -> SubjectMatch = Null
             [] k = 2 -> /\ SubjectMatch # Null
                         /\ \A i \in 1..Len(o.allowedTypes) : o.allowedTypes[i] # SubjectMatch.type
             [] k = 3 -> SubjectMatch # Null /\ o.requireScope /\ "scope" \notin DOMAIN SubjectMatch
             [] k = 4 -> /\ SubjectMatch # Null
                         /\ "scope" \in DOMAIN SubjectMatch
                         /\ "allowedScopes" \in DOMAIN o
                         /\ \A i \in 1..Len(o.allowedScopes) :
                               o.allowedScopes[i] # SubjectMatch.scope

ConventionalError(k) ==
    CASE k = 1 -> "Commit message must follow Conventional Commits format: type(scope): description"
      [] k = 2 -> "Invalid commit type: '${type}'. Allowed types: ${opts.allowedTypes.join(', ')}"
      [] k = 3 -> "Commit message must include a scope: type(scope): description"
      [] k = 4 -> "Invalid commit scope: '${scope}'. Allowed scopes: ${opts.allowedScopes.join(', ')}"

FailedConventional == {k \in 1..4 : FailsConventional(k)}

\* the result is what the order of the checks gives, when tooLong says that
\* the subject is too long
ChecksInOrder(tooLong) ==
    IF FailedConventional # {}
    THEN IF tooLong THEN RejectedForLength
         ELSE /\ ~result.valid
              /\ result.error.fmt = ConventionalError(Least(FailedConventional))
    ELSE result.valid \/ RejectedForLength

\* C24 as stated: with requireType set the message is rejected for its
\* grammar, its type, its missing scope, its scope, in this order, and all of
\* these after the subject length: a subject that is too long and not
\* conventional reports the length error.  Without requireType no value of
\* allowedTypes, requireScope or allowedScopes makes a message invalid.
C24_ConventionalChecksInOrder ==
    (Returned("validateCommitMessage") /\ Subject # <<>>) =>
        ChecksInOrder(Len(Subject) > MaxSubjectLength)

\* C24 as amended: ... a subject that is longer than a maxSubjectLength other
\* than 0 and not conventional reports the length error.
C24_ConventionalChecksAfterLengthInForce ==
    (Returned("validateCommitMessage") /\ Subject # <<>>) =>
        ChecksInOrder(MaxSubjectLength # 0 /\ Len(Subject) > MaxSubjectLength)

C24_TypeBeforeScopeWitness ==
    /\ Returned("validateCommitMessage")
    /\ {2, 3} \subseteq FailedConventional
    /\ ~result.valid
    /\ result.error.fmt = ConventionalError(2)


----------------------------------------------------------------------------
(* The body of a commit message.                                           *)

MaxBodyLineLength == GivenCommitOptions.maxBodyLineLength

SecondLineNotBlank ==
    /\ Len(Lines) > 1
    /\ \E i \in 1..Len(Lines[2]) : Lines[2][i] \notin WhitespaceChars

\* 1 when P holds, else 0
Count(P) == IF P THEN 1 ELSE 0

\* the warnings of the result are: one for a second line that is not blank,
\* then one for each line of the set long, by line number, naming that number,
\* then the warning for a subject that ends with a period
WarningsFor(long) ==
    /\ Has("warnings")
    /\ Len(result.warnings) = Count(SecondLineNotBlank) + Cardinality(long)
                              + Count(Subject[Len(Subject)] = ".")
    /\ SecondLineNotBlank =>
          result.warnings[1] =
              Text("The second line should be blank to separate subject from body")
    /\ \A i \in long :
          result.warnings[Count(SecondLineNotBlank) + Cardinality({j \in long : j <= i})] =
              Fmt("Line ${i + 1} exceeds ${opts.maxBodyLineLength} characters",
                  <<i, MaxBodyLineLength>>)

\* the message passes the checks of its subject
SubjectPasses ==
    /\ Subject # <<>>
    /\ ~(MaxSubjectLength # 0 /\ Len(Subject) > MaxSubjectLength)
    /\ FailedConventional = {}

\* C25 as stated: a message is never rejected for its body; a message that is
\* not rejected has one warning when line 2 is not blank and one warning for
\* each line from line 3 on that is longer than maxBodyLineLength, naming the
\* line's 1-based number, in line order.
C25_BodyOnlyWarns ==
    Returned("validateCommitMessage") =>
        /\ result.valid <=> SubjectPasses
        /\ result.valid =>
              WarningsFor({i \in 3..Len(Lines) : Len(Lines[i]) > MaxBodyLineLength})

\* C25 as amended: ... for each line from line 3 on that is longer than a
\* maxBodyLineLength other than 0 ...
C25_BodyOnlyWarnsForLimitInForce ==
    Returned("validateCommitMessage") =>
        /\ result.valid <=> SubjectPasses
        /\ result.valid =>
              WarningsFor({i \in 3..Len(Lines) :
                              MaxBodyLineLength # 0 /\ Len(Lines[i]) > MaxBodyLineLength})

\* two long lines with a short one between them, below a second line that is
\* not blank
C25_TwoLongLinesWitness ==
    /\ Returned("validateCommitMessage")
    /\ result.valid
    /\ SecondLineNotBlank
    /\ Len(Lines) >= 5
    /\ MaxBodyLineLength = 1
    /\ Len(Lines[3]) > 1 /\ Len(Lines[4]) <= 1 /\ Len(Lines[5]) > 1
    /\ Len(result.warnings) = 3
    /\ result.warnings[3].with = <<5, 1>>


----------------------------------------------------------------------------
(* File paths.                                                             *)

\* path has a segment between slashes (or the ends of the path) equal to '..'
HasParentSegment(path) ==
    \E a \in 1..Len(path) :
        /\ a = 1 \/ path[a - 1] = "/"
        /\ a + 1 <= Len(path)
        /\ path[a] = "." /\ path[a + 1] = "."
        /\ a + 1 = Len(path) \/ path[a + 2] = "/"

AcceptablePath(path) ==
    /\ path # <<>>
    /\ \A i \in 1..Len(path) : path[i] # NUL
    /\ ~HasParentSegment(path)

\* C26 as stated: validateFilePath rejects every path with a null byte or a
\* segment equal to '..' (first, inner or last) and accepts every other
\* non-empty path; 'foo..bar' is accepted.
C26_RejectsTraversalOnly ==
    Returned("validateFilePath") => (result.valid <=> AcceptablePath(input))

\* C26 as amended: the same of the path without its leading and trailing
\* whitespace.
C26_RejectsTraversalOfTrimmedPath ==
    Returned("validateFilePath") => (result.valid <=> AcceptablePath(trim(input)))

C26_TwoDotsInNameWitness ==
    /\ Returned("validateFilePath")
    /\ input = <<"f","o","o",".",".","b","a","r">>
    /\ result.valid


----------------------------------------------------------------------------
(* The ends of a sanitized name.                                           *)

\* C27: for every input, also one that is cut at 250 characters, the string
\* that sanitizeBranchName returns neither starts nor ends with '-', '.' or
\* '/'.
C27_SanitizedEnds ==
    (Returned("sanitizeBranchName") /\ result # <<>>) =>
        /\ result[1] \notin {"-", ".", "/"}
        /\ result[Len(result)] \notin {"-", ".", "/"}

----------------------------------------------------------------------------
(* The validator and the parser on the same message.                       *)

RejectedForFormat ==
    /\ ~result.valid
    /\ result.error.fmt =
          "Commit message must follow Conventional Commits format: type(scope): description"

\* C28: for a message whose subject is not empty and within the length limit,
\* validateCommitMessage with requireType set rejects the message for its
\* format exactly when parseConventionalCommit returns null for the message,
\* also when the subject has whitespace before or after it.
C28_ValidatorAgreesWithParser ==
    (/\ Returned("validateCommitMessage")
     /\ GivenCommitOptions.requireType
     /\ Subject # <<>>
     /\ ~RejectedForLength)
        => (RejectedForFormat <=> parseConventionalCommit(input) = Null)

----------------------------------------------------------------------------
(* The suggested subject.                                                  *)

\* the subject that the suggestion of a length rejection proposes
SuggestedSubject == result.suggestions[1].with[1] \o <<".", ".", ".">>

\* C29: the truncated subject suggested for a subject that is too long is at
\* most maxSubjectLength characters long, for every maxSubjectLength of 1 or
\* more.
C29_SuggestionFits ==
    (Returned("validateCommitMessage") /\ RejectedForLength /\ MaxSubjectLength >= 1)
        => Len(SuggestedSubject) <= MaxSubjectLength


----------------------------------------------------------------------------
(* C30: executeWithRetry.                                                  *)

Executing == execution.at # "none"

\* the promise of the execution resolved, and its value is that of the last
\* call made of the operation, whose retry count the map no longer holds
SucceededOnLastCall ==
    /\ execution.calls >= 1
    /\ execution.outcome = [value |-> execution.calls]
    /\ execution.operationId \notin DOMAIN retryAttempts

\* the map holds maxRetries for the operation of the execution
RecordedMaxRetries ==
    /\ execution.operationId \in DOMAIN retryAttempts
    /\ retryAttempts[execution.operationId] = execution.maxRetries

\* what was last thrown, as the Error that the catch block makes of it
LastThrownAsError ==
    IF execution.thrown.instanceofError THEN execution.thrown
    ELSE [instanceofError |-> TRUE, message |-> execution.thrown]

\* C30: executeWithRetry calls the operation at most maxRetries times, makes
\* no further call after the first success (it resolves with that value, and
\* the retry count of the operation is deleted), and when every attempt fails
\* it rejects with what the last attempt threw and retryAttempts[operationId]
\* is maxRetries.
C30_RetryContract ==
    Executing =>
        /\ execution.calls <= execution.maxRetries
        /\ execution.at = "resolved" => SucceededOnLastCall
        /\ execution.at = "rejected" =>
               /\ execution.calls >= 1
               /\ execution.outcome = execution.thrown
               /\ RecordedMaxRetries

\* C30, for a whole number maxRetries of 0 or more: at most maxRetries calls,
\* none after the first success, and when maxRetries is 1 or more and all
\* maxRetries attempts were made and failed, the promise rejects with what the
\* last attempt threw, made an Error when it is none, and
\* retryAttempts[operationId] is maxRetries.
C30_RetryContractOfAllAttempts ==
    (Executing /\ execution.maxRetries >= 0) =>
        /\ execution.calls <= execution.maxRetries
        /\ execution.at = "resolved" => SucceededOnLastCall
        /\ ( /\ execution.at = "rejected"
             /\ execution.maxRetries >= 1
             /\ execution.calls = execution.maxRetries ) =>
               /\ execution.outcome = LastThrownAsError
               /\ RecordedMaxRetries

\* an execution used its two attempts and both failed, the last with a value
\* that is no Error
C30_AllAttemptsFailedWitness ==
    /\ Executing
    /\ execution.at = "rejected"
    /\ execution.maxRetries = 2
    /\ execution.calls = 2
    /\ execution.thrown = [instanceofError |-> FALSE, string |-> 2]
    /\ RecordedMaxRetries

====
